---- MODULE Spec2Model ----
(***************************************************************************)
(* Model of the booking core of the Cal.com / VAPI lambda integration.     *)
(*                                                                         *)
(* Two copies of the request handler exist in the repository:              *)
(*   "part_011" : src/unnamed/part_011 (date repair, pre-flight            *)
(*                availability check, alternative slots);                  *)
(*   "index"    : src/src/index.js (legacy -> Cal.com v1 conversion,       *)
(*                booking passed straight to src/unnamed/part_012).        *)
(* The calApi module part_011 is written against (getAvailability with an  *)
(* event type id, formatAvailabilityForVoice, isTimeSlotAvailable,         *)
(* findAlternativeTimeSlots, createBooking on name/email/startTime) is in  *)
(* no file of src/; it is modelled from the specification.                 *)
(*                                                                         *)
(* Time.  A JavaScript Date is a record [day, ms]: the day number since    *)
(* 1970-01-01 and the millisecond within that day.  An ISO-8601 string is  *)
(* the record of its civil fields [y, mo, d, h, mi, s, ms].  The process   *)
(* runs with the time zone UTC (the AWS Lambda default), so the local-time *)
(* accessors of Date are the UTC ones.                                     *)
(***************************************************************************)
EXTENDS Integers, Sequences, FiniteSets, TLC

VARIABLES
    rNow,       \* SpecRepair: the value of new Date() (a Date)
    rStart,     \* SpecRepair: the requested params.startTime (an ISO string)
    rEnd,       \* SpecRepair: the requested params.endTime, or Undefined
    rOut,       \* SpecRepair: params.startTime after DateRepair, or Undefined
    rEndOut,    \* SpecRepair: params.endTime after DateRepair
    rShifted,   \* SpecRepair: whether the (isPastYear || isPastDate) branch ran
    aSlots,     \* SpecAlt: the formatted availability (a sequence of slots)
    aT0,        \* SpecAlt: the requested time (an ISO string)
    aN,         \* SpecAlt: the number of alternatives asked for
    aOut,       \* SpecAlt: [returned, slots]: the alternatives, once returned
    copy,       \* which createBooking serves the request: "part_011" or "index"
    pc,         \* where the request stands: "idle", an await, or "done"
    bNow,       \* const now = new Date() of createBooking (part_011)
    config,     \* the process-wide configuration object
    request,    \* the params object as received (the destructured constants)
    params,     \* the params object as createBooking has changed it
    calls,      \* the calls made to the scheduling provider, in order
    preflight,  \* [returned, slots]: formattedAvailability of the pre-flight check
    error,      \* the error caught from the provider, or Undefined
    widened,    \* [returned, slots]: formattedAvailability of the widened lookup
    availabilityError, \* the error of the widened lookup, or Undefined
    response,   \* the response of the handler, or Undefined
    hCopy,      \* SpecHandler: which exports.handler runs: "part_011" or "index"
    event,      \* SpecHandler: the Lambda event, or Undefined
    action,     \* SpecHandler: the action the handler resolved, or Undefined
    merged,     \* SpecHandler: the params object handed on, or Undefined
    routed,     \* SpecHandler: the functions the switch called, in order
    reply,      \* SpecHandler: the handler's own response, or Undefined
    wpc,        \* SpecWebhook: "idle", "call", "operation" or "done"
    wCopy,      \* SpecWebhook: whose createBooking runs: "part_011" or "index"
    dispatched, \* SpecWebhook: the functions called with their parameters
    wResult,    \* SpecWebhook: what the awaited function did, or Undefined
    webhook,    \* SpecWebhook: the body handed to handleVapiWebhook, or Undefined
    functionCall, \* SpecWebhook: the body handed to handleFunctionCall, or Undefined
    envelope,   \* SpecWebhook: the response returned, or Undefined
    context,    \* SpecHandler: the Lambda context, or Undefined
    rejection,  \* SpecHandler: the error the handler's promise rejects with
    requests,   \* SpecKeys: per request in flight: [pc, op, params, call, reply]
    opc,        \* SpecOps: "idle", "awaitSip", "awaitPlain" or "done"
    opName,     \* SpecOps: the function that runs, or Undefined
    opParams,   \* SpecOps: its params, or Undefined
    opCalls,    \* SpecOps: the calls to the voice platform and the provider
    opReply     \* SpecOps: the response returned or the error thrown

repairVars == <<rNow, rStart, rEnd, rOut, rEndOut, rShifted>>
altVars    == <<aSlots, aT0, aN, aOut>>
lookupVars == <<widened, availabilityError>>
bookingVars == <<copy, pc, bNow, config, request, params, calls,
                 preflight, error, widened, availabilityError, response>>

handlerVars == <<hCopy, event, context, action, merged, routed, reply, rejection>>
webhookVars == <<wpc, wCopy, dispatched, wResult, webhook, functionCall, envelope>>
keyVars == <<requests>>
opVars == <<opc, opName, opParams, opCalls, opReply>>
frontVars == <<handlerVars, webhookVars, keyVars, opVars>>

vars == <<rNow, rStart, rEnd, rOut, rEndOut, rShifted, aSlots, aT0, aN, aOut,
          copy, pc, bNow, config, request, params, calls,
          preflight, error, widened, availabilityError, response,
          hCopy, event, action, merged, routed, reply,
          wpc, wCopy, dispatched, wResult, webhook, functionCall, envelope,
          context, rejection, requests, opc, opName, opParams, opCalls, opReply>>

\* The JavaScript value undefined (an absent field).
Undefined == [undefined |-> TRUE]

-----------------------------------------------------------------------------
(* ECMAScript Date arithmetic (ECMA-262, "Time Values and Time Range").     *)

MsPerSecond == 1000
MsPerMinute == 60 * MsPerSecond
MsPerHour   == 60 * MsPerMinute
MsPerDay    == 24 * MsPerHour

IsLeapYear(y) == (y % 4 = 0 /\ y % 100 # 0) \/ y % 400 = 0

DaysInMonth(y, m) ==
    IF m = 1 THEN (IF IsLeapYear(y) THEN 29 ELSE 28)
    ELSE IF m \in {3, 5, 8, 10} THEN 30 ELSE 31

\* Day number of 1 January of year y.
DayFromYear(y) ==
    365 * (y - 1970) + ((y - 1969) \div 4) - ((y - 1901) \div 100)
        + ((y - 1601) \div 400)

RECURSIVE MonthOffset(_, _)
\* Days of year y before month m (0 = January).
MonthOffset(y, m) ==
    IF m = 0 THEN 0 ELSE MonthOffset(y, m - 1) + DaysInMonth(y, m - 1)

\* MakeDay(year, month, date): the date may lie outside the month, and then
\* runs over into the neighbouring months (29 February of a common year is
\* 1 March).
MakeDay(y, m, dt) == DayFromYear(y) + MonthOffset(y, m) + dt - 1

YearFromDay(t) ==
    CHOOSE y \in (1970 + (t \div 366))..(1970 + (t \div 365)) :
        DayFromYear(y) <= t /\ t < DayFromYear(y + 1)

MonthFromDay(t) ==
    LET y == YearFromDay(t)
        n == t - DayFromYear(y)
    IN  CHOOSE m \in 0..11 :
            MonthOffset(y, m) <= n /\ n < MonthOffset(y, m) + DaysInMonth(y, m)

DateFromDay(t) ==
    LET y == YearFromDay(t)
    IN  t - DayFromYear(y) - MonthOffset(y, MonthFromDay(t)) + 1

MakeTime(h, mi, s, ms) == h * MsPerHour + mi * MsPerMinute + s * MsPerSecond + ms

\* Date.prototype accessors (time zone UTC).
getFullYear(dt)     == YearFromDay(dt.day)
getMonth(dt)        == MonthFromDay(dt.day)
getDate(dt)         == DateFromDay(dt.day)
getHours(dt)        == dt.ms \div MsPerHour
getMinutes(dt)      == (dt.ms \div MsPerMinute) % 60
getSeconds(dt)      == (dt.ms \div MsPerSecond) % 60
getMilliseconds(dt) == dt.ms % MsPerSecond

\* Date.prototype.setFullYear(year): month and date are kept, then MakeDay.
setFullYear(dt, y) == [dt EXCEPT !.day = MakeDay(y, getMonth(dt), getDate(dt))]

\* Date.prototype.setDate(date).
setDate(dt, n) == [dt EXCEPT !.day = MakeDay(getFullYear(dt), getMonth(dt), n)]

\* Date.prototype.setHours(hour, min, sec, ms).
setHours(dt, h, mi, s, ms) == [dt EXCEPT !.ms = MakeTime(h, mi, s, ms)]

\* a < b and a <= b on Dates (the comparison of their time values).
DateLT(a, b) == a.day < b.day \/ (a.day = b.day /\ a.ms < b.ms)
DateLE(a, b) == a = b \/ DateLT(a, b)

\* new Date(isoString): the parse of an ISO-8601 UTC string.
DateParse(str) ==
    [day |-> MakeDay(str.y, str.mo - 1, str.d),
     ms  |-> MakeTime(str.h, str.mi, str.s, str.ms)]

\* Date.prototype.toISOString().
toISOString(dt) ==
    [y  |-> getFullYear(dt), mo |-> getMonth(dt) + 1, d |-> getDate(dt),
     h  |-> getHours(dt), mi |-> getMinutes(dt), s |-> getSeconds(dt),
     ms |-> getMilliseconds(dt)]

\* A time value difference a - b, kept as whole days and milliseconds
\* (0 <= ms < MsPerDay) so that it stays within the 32-bit integers of TLC.
Normalize(dd, dms) ==
    [day |-> dd + (dms \div MsPerDay), ms |-> dms % MsPerDay]
DateSub(a, b)     == Normalize(a.day - b.day, a.ms - b.ms)
DateAdd(a, delta) == Normalize(a.day + delta.day, a.ms + delta.ms)

-----------------------------------------------------------------------------
(* DateRepair: createBooking of part_011, lines 550-610.                    *)

\* const isPastYear = bookingDate.getFullYear() < now.getFullYear();
isPastYear(bookingDate, now) == getFullYear(bookingDate) < getFullYear(now)

\* A comparison that leaves a start time equal to now alone.
isPastDateStrict(bookingDate, now) == DateLT(bookingDate, now)

\* const isPastDate = bookingDate <= now;
isPastDate(bookingDate, now) == DateLE(bookingDate, now)

\* The past-year branch: the same month/day/time in the current year, and one
\* more year when that is still not after now.
adjustedPastYear(bookingDate, now) ==
    LET sameYear == setFullYear(bookingDate, getFullYear(now))
    IN  IF DateLE(sameYear, now)
        THEN setFullYear(sameYear, getFullYear(now) + 1)
        ELSE sameYear

\* The same-year branch: tomorrow at the same hour and minute.
adjustedTomorrow(bookingDate, now) ==
    setHours(setDate(now, getDate(now) + 1),
             getHours(bookingDate), getMinutes(bookingDate), 0, 0)

adjustedDate(bookingDate, now) ==
    IF isPastYear(bookingDate, now)
    THEN adjustedPastYear(bookingDate, now)
    ELSE adjustedTomorrow(bookingDate, now)

\* Whether createBooking takes the adjustment branch at all.
needsRepair(bookingDate, now) ==
    isPastYear(bookingDate, now) \/ isPastDate(bookingDate, now)

\* params.startTime as createBooking leaves it.
repairedStartTime(startTime, now) ==
    IF needsRepair(DateParse(startTime), now)
    THEN toISOString(adjustedDate(DateParse(startTime), now))
    ELSE startTime

\* bookingDate where the end time is adjusted: line 610 (bookingDate =
\* adjustedDate) has run by then.
bookingDateAtEndShift(startTime, now) == adjustedDate(DateParse(startTime), now)

\* const timeDiff = originalEndTime - bookingDate;
timeDiff(startTime, endTime, now) ==
    DateSub(DateParse(endTime), bookingDateAtEndShift(startTime, now))

\* params.endTime as createBooking leaves it (lines 615-621).
repairedEndTime(startTime, endTime, now) ==
    IF needsRepair(DateParse(startTime), now) /\ endTime # Undefined
    THEN toISOString(DateAdd(adjustedDate(DateParse(startTime), now),
                             timeDiff(startTime, endTime, now)))
    ELSE endTime

-----------------------------------------------------------------------------
(* The availability helpers of calApi that part_011 calls.  Their code is   *)
(* in no file of src/; they follow sections 3 and 4.3 of the specification. *)

\* A slot as the provider returns it.
Slot(time) == [time |-> time]

\* formatAvailabilityForVoice: every slot keeps its time and gains the text
\* read to the caller (month, day, hour, minute), in the order given.
formatAvailabilityForVoice(availability) ==
    [i \in 1..Len(availability) |->
        [time   |-> availability[i].time,
         spoken |-> <<availability[i].time.mo, availability[i].time.d,
                      availability[i].time.h, availability[i].time.mi>>]]

\* isTimeSlotAvailable: the exact requested timestamp is among the slots.
isTimeSlotAvailable(formattedAvailability, startTime) ==
    \E i \in 1..Len(formattedAvailability) :
        DateParse(formattedAvailability[i].time) = DateParse(startTime)

\* |slot.time - t0| as a time value difference.
slotDistance(slot, t0) ==
    LET a == DateParse(slot.time)
        b == DateParse(t0)
    IN  IF DateLT(a, b) THEN DateSub(b, a) ELSE DateSub(a, b)

\* A ranking by distance alone, equal distances left in the order given.
sortsBeforeNoTieBreak(s1, s2, t0) ==
    DateLT(slotDistance(s1, t0), slotDistance(s2, t0))

\* The ranking order: nearer to t0 first, and of two slots equally near the
\* earlier one first.
sortsBefore(s1, s2, t0) ==
    \/ DateLT(slotDistance(s1, t0), slotDistance(s2, t0))
    \/ /\ slotDistance(s1, t0) = slotDistance(s2, t0)
       /\ DateLT(DateParse(s1.time), DateParse(s2.time))

RECURSIVE insertSlot(_, _, _)
\* x put into the ranked sequence, before the first slot it sorts before.
insertSlot(x, ranked, t0) ==
    IF ranked = << >> THEN <<x>>
    ELSE IF sortsBefore(x, Head(ranked), t0) THEN <<x>> \o ranked
    ELSE <<Head(ranked)>> \o insertSlot(x, Tail(ranked), t0)

RECURSIVE rankSlots(_, _)
\* A stable sort of the slots by sortsBefore.
rankSlots(slots, t0) ==
    IF slots = << >> THEN << >>
    ELSE insertSlot(slots[Len(slots)], rankSlots(SubSeq(slots, 1, Len(slots) - 1), t0), t0)

\* findAlternativeTimeSlots(slots, t0, N): the first N of the ranking.
findAlternativeTimeSlots(slots, t0, N) ==
    LET ranked == rankSlots(slots, t0)
    IN  SubSeq(ranked, 1, IF N < Len(ranked) THEN N ELSE Len(ranked))

-----------------------------------------------------------------------------
(* SpecRepair: DateRepair applied to a range of requests and clocks.        *)

\* The year of the model's earliest clock.
BaseYear == 2024

\* The last leap year up to a year.
LeapYearUpTo(y) == CHOOSE yy \in (y - 3)..y : IsLeapYear(yy)

\* How many years before BaseYear a request may be dated.
YearSpan == 4

\* How many years the clock may stand after BaseYear.
ClockSpan == 1

RepairYears == (BaseYear - YearSpan)..(BaseYear + ClockSpan + 1)
ClockYears  == BaseYear..(BaseYear + ClockSpan)

\* <<month (1..12), day>> pairs: the turn of the year, the end of February,
\* the middle of the year.
SampleDays == {<<1, 1>>, <<2, 28>>, <<2, 29>>, <<3, 1>>, <<6, 15>>, <<12, 31>>}

\* <<h, mi, s, ms>>: midnight, a time with seconds and milliseconds, the last
\* millisecond of the day.
SampleTimes == {<<0, 0, 0, 0>>, <<9, 30, 15, 250>>, <<23, 59, 59, 999>>}

DaysOf(yy) == {p \in SampleDays : p[2] <= DaysInMonth(yy, p[1] - 1)}

IsoStrings(years) ==
    UNION {{[y |-> yy, mo |-> md[1], d |-> md[2],
             h |-> tm[1], mi |-> tm[2], s |-> tm[3], ms |-> tm[4]] :
                md \in DaysOf(yy), tm \in SampleTimes} : yy \in years}

\* The variables of the other specifications, at rest.
RepairAtRest ==
    /\ rNow = Undefined /\ rStart = Undefined /\ rEnd = Undefined
    /\ rOut = Undefined /\ rEndOut = Undefined /\ rShifted = FALSE

AltAtRest ==
    /\ aSlots = << >> /\ aT0 = Undefined /\ aN = 0
    /\ aOut = [returned |-> FALSE, slots |-> << >>]

BookingAtRest ==
    /\ copy = "none" /\ pc = "idle" /\ bNow = Undefined
    /\ request = Undefined /\ params = Undefined /\ calls = << >>
    /\ preflight = [returned |-> FALSE, slots |-> << >>]
    /\ error = Undefined /\ response = Undefined
    /\ widened = [returned |-> FALSE, slots |-> << >>]
    /\ availabilityError = Undefined

HandlerAtRest ==
    /\ hCopy = "none" /\ event = Undefined /\ action = Undefined
    /\ merged = Undefined /\ routed = << >> /\ reply = Undefined
    /\ context = Undefined /\ rejection = Undefined

WebhookAtRest ==
    /\ wpc = "idle" /\ webhook = Undefined
    /\ wCopy = "none" /\ dispatched = << >> /\ wResult = Undefined
    /\ functionCall = Undefined /\ envelope = Undefined

KeysAtRest == requests = << >>

OpsAtRest ==
    /\ opc = "idle" /\ opName = Undefined /\ opParams = Undefined
    /\ opCalls = << >> /\ opReply = Undefined

FrontAtRest == HandlerAtRest /\ WebhookAtRest /\ KeysAtRest /\ OpsAtRest

\* Meeting lengths: the default duration, and one that crosses midnight.
SampleDurations == {[day |-> 0, ms |-> 30 * MsPerMinute],
                    [day |-> 0, ms |-> 20 * MsPerHour]}

InitRepair ==
    /\ rNow \in {DateParse(str) : str \in IsoStrings(ClockYears)}
    /\ rStart \in IsoStrings(RepairYears)
    /\ rEnd \in {Undefined} \cup
            {toISOString(DateAdd(DateParse(rStart), dur)) : dur \in SampleDurations}
    /\ rOut = Undefined
    /\ rEndOut = Undefined
    /\ rShifted = FALSE
    /\ AltAtRest
    /\ BookingAtRest /\ config = Undefined
    /\ FrontAtRest

\* createBooking up to the adjusted parameters (part_011, lines 550-621).
DateRepair ==
    /\ rOut = Undefined
    /\ rOut' = repairedStartTime(rStart, rNow)
    /\ rEndOut' = repairedEndTime(rStart, rEnd, rNow)
    /\ rShifted' = needsRepair(DateParse(rStart), rNow)
    /\ UNCHANGED <<rNow, rStart, rEnd>>
    /\ UNCHANGED altVars
    /\ UNCHANGED bookingVars
    /\ UNCHANGED frontVars

NextRepair == DateRepair

SpecRepair == InitRepair /\ [][NextRepair]_vars

-----------------------------------------------------------------------------
(* SpecAlt: findAlternativeTimeSlots applied to a range of availabilities.  *)

\* The longest availability list.
MaxSlots == 3

\* The largest number of alternatives asked for.
MaxN == 3

\* The day of the requests of SpecAlt.
AltDay(h, mi) == [y |-> BaseYear + 1, mo |-> 6, d |-> 16,
                  h |-> h, mi |-> mi, s |-> 0, ms |-> 0]

\* Slot times: two pairs equally far from 10:15 (09:00/11:30, 10:00/10:30),
\* and the same time a day later.
AltTimes == {AltDay(9, 0), AltDay(10, 0), AltDay(10, 30), AltDay(11, 30),
             [AltDay(10, 15) EXCEPT !.d = 17]}

AltRequests == {AltDay(10, 15), AltDay(10, 0)}

\* The sequences over S of length at most n, no element twice.
SeqsNoRepeat(S, n) ==
    UNION {{q \in [1..k -> S] : \A i, j \in 1..k : q[i] = q[j] => i = j} : k \in 0..n}

\* The orders a sequence can be given in.
Reorderings(q) ==
    {[i \in 1..Len(q) |-> q[f[i]]] :
        f \in {g \in [1..Len(q) -> 1..Len(q)] :
                    \A i, j \in 1..Len(q) : g[i] = g[j] => i = j}}

InitAlt ==
    /\ aSlots \in {formatAvailabilityForVoice([i \in 1..Len(q) |-> Slot(q[i])]) :
                        q \in SeqsNoRepeat(AltTimes, MaxSlots)}
    /\ aT0 \in AltRequests
    /\ aN \in 0..MaxN
    /\ aOut = [returned |-> FALSE, slots |-> << >>]
    /\ RepairAtRest
    /\ BookingAtRest /\ config = Undefined
    /\ FrontAtRest

\* calApi.findAlternativeTimeSlots(formattedAvailability, startTime, N)
FindAlternatives ==
    /\ ~aOut.returned
    /\ aOut' = [returned |-> TRUE,
                slots    |-> findAlternativeTimeSlots(aSlots, aT0, aN)]
    /\ UNCHANGED <<aSlots, aT0, aN>>
    /\ UNCHANGED repairVars
    /\ UNCHANGED bookingVars
    /\ UNCHANGED frontVars

NextAlt == FindAlternatives

SpecAlt == InitAlt /\ [][NextAlt]_vars

-----------------------------------------------------------------------------
(* Objects with optional fields.  A field that is undefined (or falsy: the  *)
(* code tests fields with !x) is left out of the record.                    *)

Has(obj, key) == key \in DOMAIN obj

\* A JavaScript string and a JavaScript number, where the code tells them
\* apart with typeof.
String(text) == [type |-> "string", value |-> text]

Number(n) == [type |-> "number", value |-> n]

Field(key, value) == key :> value

\* No field, or the field with one of the values.
Optional(key, values) == {<< >>} \cup {Field(key, v) : v \in values}

-----------------------------------------------------------------------------
(* Errors (utils/errorHandler, src/unnamed/part_013).  statusCode 0, and    *)
(* the empty string for field, resource and source, stand for an absent     *)
(* property.                                                                *)

ValidationError(message, field) ==
    [name |-> "ValidationError", message |-> message, statusCode |-> 400,
     field |-> field, resource |-> "", source |-> "", alreadyBooked |-> FALSE]

NotFoundError(message, resource) ==
    [name |-> "NotFoundError", message |-> message, statusCode |-> 404,
     field |-> "", resource |-> resource, source |-> "", alreadyBooked |-> FALSE]

AuthError(message) ==
    [name |-> "AuthError", message |-> message, statusCode |-> 401,
     field |-> "", resource |-> "", source |-> "", alreadyBooked |-> FALSE]

\* new Error(message), with the properties the thrower sets on it.
PlainError(message, statusCode, source, alreadyBooked) ==
    [name |-> "Error", message |-> message, statusCode |-> statusCode,
     field |-> "", resource |-> "", source |-> source,
     alreadyBooked |-> alreadyBooked]

\* handleError(error, log): the status of the error or 500, and a body with
\* success:false, the message, the type, and field / resource when set.
handleError(err) ==
    [statusCode |-> IF err.statusCode # 0 THEN err.statusCode ELSE 500,
     body |-> [success |-> FALSE, error |-> err.message, type |-> err.name]
                @@ (IF err.field # "" THEN Field("field", err.field) ELSE << >>)
                @@ (IF err.resource # "" THEN Field("resource", err.resource)
                    ELSE << >>)]

-----------------------------------------------------------------------------
(* createBooking of part_011 (lines 539-769), under the handler of          *)
(* part_011 (lines 13-61), which answers a thrown error with handleError.   *)

\* config.cal.eventTypeId: process.env.CAL_EVENT_TYPE_ID || '2077162'
DefaultEventTypeId == String("2077162")

\* The number of alternatives createBooking asks for.
MaxAlternatives == 5

\* if (!name || !email || !startTime || !timeZone)
missingRequired(p) ==
    ~Has(p, "name") \/ ~Has(p, "email") \/ ~Has(p, "startTime") \/ ~Has(p, "timeZone")

\* throw new ValidationError('Missing required parameters', 'params', ...)
missingParameters(p) == ValidationError("Missing required parameters", "params")

\* params after lines 562-629: startTime, and endTime when given, replaced.
adjustParams(p, clock) ==
    IF needsRepair(DateParse(p.startTime), clock)
    THEN [k \in DOMAIN p |->
            IF k = "startTime" THEN repairedStartTime(p.startTime, clock)
            ELSE IF k = "endTime"
                 THEN repairedEndTime(p.startTime, p.endTime, clock)
                 ELSE p[k]]
    ELSE p

\* const eventTypeId = params.eventTypeId || config.cal.eventTypeId;
eventTypeIdOf(p) ==
    IF Has(p, "eventTypeId") THEN p.eventTypeId ELSE config.cal.eventTypeId

\* new Date(y, m, d).toISOString().split('T')[0]: the date part of the day.
dateString(day) ==
    LET iso == toISOString([day |-> day, ms |-> 0])
    IN  [y |-> iso.y, mo |-> iso.mo, d |-> iso.d]

\* The window of an availability query around the date of startTime.
availabilityWindow(startTime, daysBefore, daysAfter) ==
    LET requestedDate == DateParse(startTime)
        y == getFullYear(requestedDate)
        m == getMonth(requestedDate)
        d == getDate(requestedDate)
    IN  [startDate |-> dateString(MakeDay(y, m, d - daysBefore)),
         endDate   |-> dateString(MakeDay(y, m, d + daysAfter))]

\* The time the pre-flight check is made for: the constant startTime that
\* line 542 took from params before the repair (lines 640 and 649).
checkedStartTime(req, p) == req.startTime

\* calApi.getAvailability(eventTypeId, startDate, endDate, timeZone)
getAvailabilityCall(p, window) ==
    [op |-> "getAvailability", eventTypeId |-> eventTypeIdOf(p),
     startDate |-> window.startDate, endDate |-> window.endDate,
     timeZone |-> p.timeZone]

\* const bookingDetails = {eventTypeId, name, email, startTime, endTime,
\* timeZone, ...}: the constants of line 542, not the fields of params.
bookingDetails(req) ==
    [k \in DOMAIN req \cap {"name", "email", "startTime", "endTime", "timeZone"}
        |-> req[k]]
    @@ Field("eventTypeId", eventTypeIdOf(req))

\* The 409 response with the alternatives left out.
conflictResponseBare(alternativeSlots) ==
    [statusCode |-> 409,
     body |-> [success |-> FALSE,
               error   |-> "Requested time slot is not available",
               alternativeSlots |-> << >>,
               message |-> [text |-> "The requested time slot is not available"]]]

\* The 409 response of lines 657-665 and 752-760.
conflictResponse(alternativeSlots) ==
    [statusCode |-> 409,
     body |-> [success |-> FALSE,
               error   |-> "Requested time slot is not available",
               alternativeSlots |-> alternativeSlots,
               message |-> [text |-> "The requested time slot is not available"]]]

\* The 200 response of lines 696-734.
successResponse(req, p, booking) ==
    LET dateAdjusted == req.startTime # p.startTime
    IN  [statusCode |-> 200,
         body |-> [success |-> TRUE,
                   booking |-> booking,
                   message |->
                       IF dateAdjusted
                       THEN [text |-> "Booking created successfully",
                             note |-> [requested |-> req.startTime,
                                       scheduled |-> p.startTime]]
                       ELSE [text |-> "Booking created successfully"],
                   dateAdjusted |-> dateAdjusted,
                   originalDate |-> req.startTime,
                   adjustedDate |-> p.startTime]]

\* The catch of line 735 takes an error for a booking conflict.
isAlreadyBookedError(err) ==
    err.source = "cal" /\ err.statusCode = 400 /\ err.alreadyBooked

\* The errors the calApi of part_011 throws: section 7 of the specification,
\* and the provider's rejection of a time that is already booked.
CalErrors ==
    {AuthError("Authentication failed"),
     NotFoundError("Resource not found", "Cal.com API"),
     ValidationError("Invalid request", "unknown"),
     PlainError("Error calling Cal.com API", 0, "", FALSE),
     PlainError("already has booking at this time or is not available",
                400, "cal", TRUE)}

\* The booking record of the provider.
BookingRecord(details) == [id |-> "booking-123", start |-> details.startTime]

\* The longest availability list the provider returns in Spec.
MaxAvail == 2

\* A duration of n minutes.
Minutes(n) == [day |-> 0, ms |-> n * MsPerMinute]

\* The slot times the provider may return for a request: the time asked for,
\* the repaired time, and the times 30 and 90 minutes after the one asked for.
SlotTimesFor(req, p) ==
    {req.startTime, p.startTime,
     toISOString(DateAdd(DateParse(req.startTime), Minutes(30))),
     toISOString(DateAdd(DateParse(req.startTime), Minutes(90)))}

Availabilities(req, p) ==
    {[i \in 1..Len(q) |-> Slot(q[i])] :
        q \in SeqsNoRepeat(SlotTimesFor(req, p), MaxAvail)}

\* The clocks of Spec: a morning in the middle of a common year.
BookingClocks ==
    {DateParse([y |-> BaseYear + 1, mo |-> 6, d |-> 15,
                h |-> 9, mi |-> 30, s |-> 15, ms |-> 250])}

IsoAt(y, mo, d, tm) ==
    [y |-> y, mo |-> mo, d |-> d, h |-> tm[1], mi |-> tm[2], s |-> tm[3], ms |-> tm[4]]

\* The start times of Spec: a past year (repaired onto the clock, then a year
\* on), 29 February of a past year, earlier this year, now, later today, and
\* next year.
BookingStarts ==
    {IsoAt(BaseYear, 6, 15, <<9, 30, 15, 250>>),
     IsoAt(LeapYearUpTo(BaseYear), 2, 29, <<0, 0, 0, 0>>),
     IsoAt(BaseYear + 1, 1, 1, <<23, 59, 59, 999>>),
     IsoAt(BaseYear + 1, 6, 15, <<9, 30, 15, 250>>),
     IsoAt(BaseYear + 1, 6, 15, <<23, 59, 59, 999>>),
     IsoAt(BaseYear + 2, 1, 1, <<0, 0, 0, 0>>)}

\* startTime and endTime of a request: none, a start, or a start with the end
\* 30 minutes after it.
TimeFields(starts) ==
    {<< >>}
    \cup {Field("startTime", st) : st \in starts}
    \cup {Field("startTime", st)
            @@ Field("endTime", toISOString(DateAdd(DateParse(st), Minutes(30)))) :
          st \in starts}

\* The legacy call shape.
LegacyRequests ==
    {a @@ b @@ c @@ d @@ e :
        a \in Optional("name", {"John Doe"}),
        b \in Optional("email", {"john@example.com"}),
        c \in TimeFields(BookingStarts),
        d \in Optional("timeZone", {"America/New_York"}),
        e \in Optional("eventTypeId", {String("123")})}

CreateBookingPart011 ==
    /\ pc = "idle"
    /\ \E req \in LegacyRequests, clock \in BookingClocks :
        /\ copy' = "part_011"
        /\ request' = req
        /\ bNow' = clock
        /\ IF missingRequired(req)
           THEN /\ params' = req
                /\ response' = handleError(missingParameters(req))
                /\ pc' = "done"
                /\ calls' = calls
           ELSE LET p == adjustParams(req, clock)
                IN  /\ params' = p
                    /\ calls' = Append(calls,
                          getAvailabilityCall(p,
                              availabilityWindow(checkedStartTime(req, p), 1, 1)))
                    /\ pc' = "awaitAvailability"
                    /\ response' = response
    /\ UNCHANGED <<config, preflight, error>>
    /\ UNCHANGED <<repairVars, altVars, lookupVars>>
    /\ UNCHANGED frontVars

\* The catch of line 761 with the error of the lookup thrown on.
rethrownLookupError(original, availabilityErr) == availabilityErr

\* Lines 761-768: catch (availabilityError) only logs; throw error then
\* throws the error of the first catch.
rethrown(original, availabilityErr) == original

\* The catch of lines 735-769, for the error of either provider call.
CatchProviderError(err) ==
    /\ error' = err
    /\ IF isAlreadyBookedError(err)
       THEN /\ calls' = Append(calls,
                  getAvailabilityCall(params,
                      availabilityWindow(checkedStartTime(request, params), 3, 7)))
            /\ pc' = "awaitAlternatives"
            /\ response' = response
       ELSE /\ response' = handleError(err)
            /\ pc' = "done"
            /\ calls' = calls

\* getAvailability resolves: lines 646-694.
AvailabilityReturns ==
    /\ pc = "awaitAvailability"
    /\ \E availability \in Availabilities(request, params) :
        LET formatted == formatAvailabilityForVoice(availability)
            startTime == checkedStartTime(request, params)
        IN  /\ preflight' = [returned |-> TRUE, slots |-> formatted]
            /\ IF ~isTimeSlotAvailable(formatted, startTime)
               THEN /\ response' = conflictResponse(
                          findAlternativeTimeSlots(formatted, startTime,
                                                   MaxAlternatives))
                    /\ pc' = "done"
                    /\ calls' = calls
               ELSE /\ calls' = Append(calls,
                          [op |-> "createBooking",
                           details |-> bookingDetails(request)])
                    /\ pc' = "awaitBooking"
                    /\ response' = response
    /\ UNCHANGED <<copy, bNow, config, request, params, error>>
    /\ UNCHANGED <<repairVars, altVars, lookupVars>>
    /\ UNCHANGED frontVars

\* getAvailability rejects.
AvailabilityFails ==
    /\ pc = "awaitAvailability"
    /\ \E err \in CalErrors : CatchProviderError(err)
    /\ UNCHANGED <<copy, bNow, config, request, params, preflight>>
    /\ UNCHANGED <<repairVars, altVars, lookupVars>>
    /\ UNCHANGED frontVars

\* calApi.createBooking resolves: lines 696-734.
BookingReturns ==
    /\ pc = "awaitBooking"
    /\ response' = successResponse(request, params,
                       BookingRecord(calls[Len(calls)].details))
    /\ pc' = "done"
    /\ UNCHANGED <<copy, bNow, config, request, params, calls, preflight, error>>
    /\ UNCHANGED <<repairVars, altVars, lookupVars>>
    /\ UNCHANGED frontVars

\* calApi.createBooking rejects.
BookingFails ==
    /\ pc = "awaitBooking"
    /\ \E err \in CalErrors : CatchProviderError(err)
    /\ UNCHANGED <<copy, bNow, config, request, params, preflight>>
    /\ UNCHANGED <<repairVars, altVars, lookupVars>>
    /\ UNCHANGED frontVars

\* The widened getAvailability resolves: lines 749-760.
AlternativesReturn ==
    /\ pc = "awaitAlternatives"
    /\ \E availability \in Availabilities(request, params) :
        LET formatted == formatAvailabilityForVoice(availability)
        IN  /\ widened' = [returned |-> TRUE, slots |-> formatted]
            /\ response' = conflictResponse(
                  findAlternativeTimeSlots(formatted,
                      checkedStartTime(request, params), MaxAlternatives))
    /\ pc' = "done"
    /\ UNCHANGED <<copy, bNow, config, request, params, calls, preflight, error>>
    /\ UNCHANGED <<repairVars, altVars, availabilityError>>
    /\ UNCHANGED frontVars

\* The widened getAvailability rejects: the first error is thrown on.
AlternativesFail ==
    /\ pc = "awaitAlternatives"
    /\ \E err \in CalErrors :
        /\ availabilityError' = err
        /\ response' = handleError(rethrown(error, err))
    /\ pc' = "done"
    /\ UNCHANGED <<copy, bNow, config, request, params, calls, preflight, error>>
    /\ UNCHANGED <<repairVars, altVars, widened>>
    /\ UNCHANGED frontVars

-----------------------------------------------------------------------------
(* createBooking of src/src/index.js (lines 679-812) over calApi            *)
(* createBooking of src/unnamed/part_012 (lines 281-417).                   *)

\* config.app.defaultDuration: parseInt(getEnv('DEFAULT_DURATION', '30'), 10)
DefaultDuration == 30

\* typeof eventTypeId === 'string' ? parseInt(eventTypeId, 10) : eventTypeId,
\* on the event type ids of the model.
parseIntIfString(v) ==
    IF v.type = "string"
    THEN Number(IF v.value = "123" THEN 123 ELSE 2077162)
    ELSE v

\* part_012, line 327: const duration = 15;
FixedDuration == 15

\* if (params.eventTypeId && params.start && params.responses && params.timeZone)
isV1Format(p) ==
    Has(p, "eventTypeId") /\ Has(p, "start") /\ Has(p, "responses") /\ Has(p, "timeZone")

\* Lines 708-722: the field of the ValidationError thrown, "" when none is.
firstMissingField(p) ==
    IF ~Has(p, "name") THEN "name"
    ELSE IF ~Has(p, "email") THEN "email"
    ELSE IF ~Has(p, "startTime") THEN "startTime"
    ELSE IF ~Has(p, "eventTypeId") THEN "eventTypeId"
    ELSE IF ~Has(p, "timeZone") THEN "timeZone"
    ELSE ""

\* params.apiKey || config.cal.apiKey, as an optional field.
apiKeyField(p) ==
    IF Has(p, "apiKey") THEN Field("apiKey", p.apiKey)
    ELSE IF config.cal.apiKey # "" THEN Field("apiKey", config.cal.apiKey)
    ELSE << >>

\* Line 689: params.apiKey = params.apiKey || config.cal.apiKey;
withApiKey(p) == apiKeyField(p) @@ p

\* Lines 729-755: the legacy request converted to the Cal.com v1 format.
legacyBookingData(p) ==
    [eventTypeId |-> parseIntIfString(p.eventTypeId),
     start       |-> p.startTime,
     end         |-> IF Has(p, "endTime") THEN p.endTime
                     ELSE toISOString(DateAdd(DateParse(p.startTime),
                                              Minutes(DefaultDuration))),
     responses   |-> [name |-> p.name, email |-> p.email],
     timeZone    |-> p.timeZone]
    @@ apiKeyField(p)

\* part_012, lines 283-307: the field calApi.createBooking rejects, "" when
\* it goes on to the provider.
calApiMissingField(data) ==
    IF ~Has(data, "start") THEN "start"
    ELSE IF ~Has(data, "responses") THEN "responses"
    ELSE IF ~Has(data.responses, "name") THEN "responses.name"
    ELSE IF ~Has(data.responses, "email") THEN "responses.email"
    ELSE IF ~Has(data, "timeZone") THEN "timeZone"
    ELSE IF ~Has(data, "eventTypeId") THEN "eventTypeId"
    ELSE IF ~Has(data, "apiKey") THEN "apiKey"
    ELSE ""

\* part_012, lines 329-344: the body posted to /v1/bookings.
postedBooking(data) ==
    [op |-> "createBooking",
     details |-> [eventTypeId |-> parseIntIfString(data.eventTypeId),
                  startTime   |-> data.start,
                  endTime     |-> IF Has(data, "end") THEN data.end
                                  ELSE toISOString(DateAdd(DateParse(data.start),
                                                           Minutes(FixedDuration))),
                  responses   |-> data.responses,
                  timeZone    |-> data.timeZone]]

\* part_012, lines 377-415: what calApi.createBooking throws when the
\* provider answers 401, 404, 400, another status (409, 500), or not at all.
FetchErrors ==
    {AuthError("Authentication failed"),
     NotFoundError("Resource not found", "Cal.com API"),
     ValidationError("Invalid request", "unknown"),
     PlainError("Cal.com API error (409)", 409, "cal", TRUE),
     PlainError("Cal.com API error (500)", 500, "cal", FALSE),
     PlainError("fetch failed", 500, "cal", FALSE)}

\* Line 776, `error instanceof ApiError`: index.js neither imports nor
\* defines ApiError, so evaluating the identifier throws a ReferenceError,
\* which the catch of line 808 hands to handleError.
ApiErrorNotDefined ==
    [name |-> "ReferenceError", message |-> "ApiError is not defined",
     statusCode |-> 0, field |-> "", resource |-> "", source |-> "",
     alreadyBooked |-> FALSE]

\* The 200 response of lines 695-702 and 766-773.
bookedResponse(booking) ==
    [statusCode |-> 200,
     body |-> [success |-> TRUE,
               booking |-> booking,
               message |-> [text |-> "Booking created successfully"]]]

\* The provider-native shape: responses with both fields, or without email.
ResponsesValues ==
    {[name |-> "John Doe", email |-> "john@example.com"], [name |-> "John Doe"]}

\* The start times of the requests to index.js, which reads no clock.
IndexStarts ==
    {IsoAt(BaseYear, 6, 15, <<9, 30, 15, 250>>),
     IsoAt(BaseYear + 2, 1, 1, <<0, 0, 0, 0>>)}

IndexRequests ==
    {a @@ b @@ c @@ d @@ e @@ f @@ g @@ h :
        a \in Optional("name", {"John Doe"}),
        b \in Optional("email", {"john@example.com"}),
        c \in TimeFields(IndexStarts),
        d \in Optional("timeZone", {"America/New_York"}),
        e \in Optional("eventTypeId", {String("123")}),
        f \in Optional("start", {IsoAt(BaseYear + 2, 1, 1, <<0, 0, 0, 0>>)}),
        g \in Optional("responses", ResponsesValues),
        h \in Optional("apiKey", {"cal_live_request"})}

\* createBooking up to its await (lines 683-764).
CreateBookingIndex ==
    /\ pc = "idle"
    /\ \E req \in IndexRequests :
        /\ copy' = "index"
        /\ request' = req
        /\ IF isV1Format(req)
           THEN LET p == withApiKey(req)
                IN  /\ params' = p
                    /\ IF calApiMissingField(p) # ""
                       THEN /\ response' = handleError(
                                  ValidationError("Missing", calApiMissingField(p)))
                            /\ pc' = "done"
                            /\ calls' = calls
                       ELSE /\ calls' = Append(calls, postedBooking(p))
                            /\ pc' = "awaitFetch"
                            /\ response' = response
           ELSE /\ params' = req
                /\ IF firstMissingField(req) # ""
                   THEN /\ response' = handleError(
                              ValidationError("Missing", firstMissingField(req)))
                        /\ pc' = "done"
                        /\ calls' = calls
                   ELSE IF calApiMissingField(legacyBookingData(req)) # ""
                   THEN /\ response' = handleError(ApiErrorNotDefined)
                        /\ pc' = "done"
                        /\ calls' = calls
                   ELSE /\ calls' = Append(calls,
                              postedBooking(legacyBookingData(req)))
                        /\ pc' = "awaitFetch"
                        /\ response' = response
    /\ UNCHANGED <<bNow, config, preflight, error>>
    /\ UNCHANGED <<repairVars, altVars, lookupVars>>
    /\ UNCHANGED frontVars

\* The provider accepts the booking.
FetchReturns ==
    /\ pc = "awaitFetch"
    /\ response' = bookedResponse(BookingRecord(calls[Len(calls)].details))
    /\ pc' = "done"
    /\ UNCHANGED <<copy, bNow, config, request, params, calls, preflight, error>>
    /\ UNCHANGED <<repairVars, altVars, lookupVars>>
    /\ UNCHANGED frontVars

\* The provider rejects the booking, or cannot be reached.
FetchFails ==
    /\ pc = "awaitFetch"
    /\ \E err \in FetchErrors :
        /\ error' = err
        /\ response' = IF isV1Format(request)
                       THEN handleError(err)
                       ELSE handleError(ApiErrorNotDefined)
    /\ pc' = "done"
    /\ UNCHANGED <<copy, bNow, config, request, params, calls, preflight>>
    /\ UNCHANGED <<repairVars, altVars, lookupVars>>
    /\ UNCHANGED frontVars

-----------------------------------------------------------------------------
(* Spec: one createBooking request, served by either copy.                  *)

\* config.cal.apiKey is getEnv('CAL_API_KEY'): set, or the empty string.
Init ==
    /\ BookingAtRest
    /\ config \in {[cal |-> [apiKey |-> k, eventTypeId |-> DefaultEventTypeId]] :
                     k \in {"", "cal_live_default"}}
    /\ RepairAtRest
    /\ AltAtRest
    /\ FrontAtRest

Next ==
    \/ CreateBookingPart011
    \/ AvailabilityReturns
    \/ AvailabilityFails
    \/ BookingReturns
    \/ BookingFails
    \/ AlternativesReturn
    \/ AlternativesFail
    \/ CreateBookingIndex
    \/ FetchReturns
    \/ FetchFails

Spec == Init /\ [][Next]_vars

-----------------------------------------------------------------------------
(* SpecHandler: exports.handler of src/src/index.js (lines 30-169) and of   *)
(* src/unnamed/part_011 (lines 13-61), up to the call of the routed         *)
(* function.  Property values are JavaScript values with their type.        *)

Boolean(b) == [type |-> "boolean", value |-> b]

\* ToBoolean of a string, a number or a boolean.
Truthy(v) ==
    IF v.type = "string" THEN v.value # ""
    ELSE IF v.type = "number" THEN v.value # 0
    ELSE v.value

\* obj[key] is there and truthy: the test the code writes as `obj[key]`.
TruthyAt(obj, key) == Has(obj, key) /\ Truthy(obj[key])

\* new TypeError / SyntaxError, as thrown by the engine: no statusCode.
EngineError(name, message) ==
    [name |-> name, message |-> message, statusCode |-> 0,
     field |-> "", resource |-> "", source |-> "", alreadyBooked |-> FALSE]

\* Reading a property of undefined.
ReadOfUndefined ==
    EngineError("TypeError", "Cannot read properties of undefined")

\* src/src/index.js, lines 10-22.
VALID_ACTIONS ==
    {"createBooking", "getAvailableSlots", "rescheduleBooking", "cancelBooking",
     "getBookingDetails", "checkAvailability", "findAvailability",
     "handleVapiWebhook", "initializeAssistant", "trialStarted"}

\* src/src/index.js, lines 83-84: const knownActions = [...]
knownActions ==
    {"createBooking", "getAvailableSlots", "rescheduleBooking", "cancelBooking",
     "getBookingDetails", "checkAvailability"}

\* The case labels of the switch (index.js 119-154, part_011 33-57).
switchCases ==
    {"initializeAssistant", "trialStarted", "handleVapiWebhook",
     "checkAvailability", "findAvailability", "getAvailableSlots",
     "createBooking", "rescheduleBooking", "cancelBooking", "getBookingDetails"}

\* The function each case calls.
handlerOf(name) == IF name = "trialStarted" THEN "handleTrialStarted" ELSE name

\* event.path.split('/').filter(Boolean); a path is the sequence of the
\* pieces between its slashes ("/a/" is <<"", "a", "">>).
pathParts(ev) ==
    IF Has(ev, "path") THEN SelectSeq(ev.path, LAMBDA piece : piece # "")
    ELSE << >>

lastPathPart(ev) ==
    IF Len(pathParts(ev)) > 0 THEN pathParts(ev)[Len(pathParts(ev))] ELSE ""

\* event.queryStringParameters || {}
queryParamsOf(ev) ==
    IF Has(ev, "queryStringParameters") THEN ev.queryStringParameters ELSE << >>

Returned(v) == [threw |-> FALSE, value |-> v]

Threw(err) == [threw |-> TRUE, error |-> err]

JsonNull == [kind |-> "null"]

JsonObject(obj) == [kind |-> "object", object |-> obj]

\* index.js, lines 52-60: let body = {}; JSON.parse in a try of its own.
parseBodyIndex(ev) ==
    IF ~Has(ev, "body") THEN Returned(JsonObject(<< >>))
    ELSE IF ev.body.json = "invalid" THEN Returned(JsonObject(<< >>))
    ELSE IF ev.body.json = "null" THEN Returned(JsonNull)
    ELSE Returned(JsonObject(ev.body.object))

\* part_011, line 22: let body = event.body ? JSON.parse(event.body) : {};
parseBodyPart011(ev) ==
    IF ~Has(ev, "body") THEN Returned(JsonObject(<< >>))
    ELSE IF ev.body.json = "invalid"
         THEN Threw(EngineError("SyntaxError", "Unexpected token in JSON"))
    ELSE IF ev.body.json = "null" THEN Returned(JsonNull)
    ELSE Returned(JsonObject(ev.body.object))

\* { ...body }: the own properties of body, none for null.
spread(body) == IF body.kind = "null" THEN << >> ELSE body.object

\* body.action, which throws on null.
bodyAction(body) ==
    IF body.kind = "null"
    THEN Threw(EngineError("TypeError", "Cannot read properties of null"))
    ELSE IF TruthyAt(body.object, "action") THEN Returned(body.object.action)
    ELSE Returned(String("handleVapiWebhook"))

\* The resolution without the direct path check of lines 75-77.
resolveActionQueryFirst(ev, body) ==
    IF TruthyAt(queryParamsOf(ev), "action")
    THEN Returned(queryParamsOf(ev).action)
    ELSE IF lastPathPart(ev) # ""
    THEN IF lastPathPart(ev) \in knownActions
         THEN Returned(String(lastPathPart(ev)))
         ELSE Returned(String("handleVapiWebhook"))
    ELSE bodyAction(body)

\* index.js, lines 62-99.
resolveActionIndex(ev, body) ==
    IF \/ lastPathPart(ev) = "createBooking"
       \/ (Has(ev, "path") /\ ev.path = <<"", "createBooking">>)
    THEN Returned(String("createBooking"))
    ELSE IF TruthyAt(queryParamsOf(ev), "action")
    THEN Returned(queryParamsOf(ev).action)
    ELSE IF lastPathPart(ev) # ""
    THEN IF lastPathPart(ev) \in knownActions
         THEN Returned(String(lastPathPart(ev)))
         ELSE Returned(String("handleVapiWebhook"))
    ELSE bodyAction(body)

\* part_011, line 28:
\* event.queryStringParameters?.action || body.action || 'handleVapiWebhook'
resolveActionPart011(ev, body) ==
    IF TruthyAt(queryParamsOf(ev), "action")
    THEN Returned(queryParamsOf(ev).action)
    ELSE bodyAction(body)

\* index.js, lines 101-114: params.action and each query parameter are set
\* where params has no truthy value under the key.
mergeParams(body, act, query) ==
    LET withAction == IF TruthyAt(spread(body), "action") THEN spread(body)
                      ELSE Field("action", act) @@ spread(body)
        copied == {k \in DOMAIN query : ~TruthyAt(withAction, k)}
    IN  [k \in copied |-> query[k]] @@ withAction

\* The switch: the function called, or the ValidationError of the default.
route(act) ==
    IF act.type = "string" /\ act.value \in switchCases
    THEN Returned(handlerOf(act.value))
    ELSE Threw(ValidationError("Invalid action specified", "action"))

\* index.js, lines 39-49: the answer to a CORS pre-flight request.
optionsResponse == [statusCode |-> 200, body |-> [success |-> TRUE]]

\* What exports.handler has done when it returns or calls the routed
\* function: the action, the params, the function called, its own response.
Outcome(act, prm, fns, rsp) ==
    [action |-> act, merged |-> prm, routed |-> fns, reply |-> rsp]

\* exports.handler of src/src/index.js.
handlerIndex(ev) ==
    IF ev.httpMethod = "OPTIONS"
    THEN Outcome(Undefined, Undefined, << >>, optionsResponse)
    ELSE LET body     == parseBodyIndex(ev).value
             resolved == resolveActionIndex(ev, body)
         IN  IF resolved.threw
             THEN Outcome(Undefined, Undefined, << >>, handleError(resolved.error))
             ELSE LET prm == mergeParams(body, resolved.value, queryParamsOf(ev))
                      fn  == route(resolved.value)
                  IN  IF fn.threw
                      THEN Outcome(resolved.value, prm, << >>, handleError(fn.error))
                      ELSE Outcome(resolved.value, prm, <<fn.value>>, Undefined)

\* exports.handler of src/unnamed/part_011.
handlerPart011(ev) ==
    LET parsed == parseBodyPart011(ev)
    IN  IF parsed.threw
        THEN Outcome(Undefined, Undefined, << >>, handleError(parsed.error))
        ELSE LET resolved == resolveActionPart011(ev, parsed.value)
             IN  IF resolved.threw
                 THEN Outcome(Undefined, spread(parsed.value), << >>,
                              handleError(resolved.error))
                 ELSE LET fn == route(resolved.value)
                      IN  IF fn.threw
                          THEN Outcome(resolved.value, spread(parsed.value), << >>,
                                       handleError(fn.error))
                          ELSE Outcome(resolved.value, spread(parsed.value),
                                       <<fn.value>>, Undefined)

\* The paths of the model: none, "/", and each action name and one unknown
\* name as "/name" and as "/prod/name/".
PathNames == VALID_ACTIONS \cup {"webhook"}

Paths ==
    {<< >>, Field("path", <<"", "">>)}
    \cup {Field("path", <<"", name>>) : name \in PathNames}
    \cup {Field("path", <<"", "prod", name, "">>) : name \in PathNames}

\* The query strings: none, or an action (empty, known or unknown) with or
\* without two further parameters.
Queries ==
    {<< >>}
    \cup {Field("queryStringParameters", a @@ b) :
            a \in Optional("action", {String(""), String("createBooking"),
                                      String("checkAvailability"), String("bogus")}),
            b \in {<< >>, [flag |-> String("q"), endDate |-> String("2024-01-08")]}}

\* The parsed bodies: an action or none, a flag that is falsy or not, and the
\* fields of a plain request, of a dated one, or of a function-call webhook.
BodyObjects ==
    {a @@ b @@ c :
        a \in Optional("action", {String(""), String("checkAvailability"),
                                  String("cancelBooking"), String("bogus")}),
        b \in Optional("flag", {Boolean(FALSE), Number(0), String(""), String("keep")}),
        c \in {<< >>, [startDate |-> String("2024-01-01")],
               [type |-> String("function"), function |-> String("createBooking")]}}

\* event.body: none, text that is not JSON, the text null, or an object.
Bodies ==
    {<< >>, Field("body", [json |-> "invalid"]), Field("body", [json |-> "null"])}
    \cup {Field("body", [json |-> "object", object |-> obj]) : obj \in BodyObjects}

Events ==
    {[httpMethod |-> "POST"] @@ p @@ q @@ b :
        p \in Paths, q \in Queries, b \in Bodies}
    \cup {[httpMethod |-> "OPTIONS"] @@ p : p \in Paths}

\* The Lambda context: given, or absent as in a direct invocation.
Contexts == {[awsRequestId |-> "req-1"], Undefined}

\* index.js, line 32: context ? context.awsRequestId : Date.now().toString()
requestIdIndex(ctx) ==
    IF ctx = Undefined THEN Returned("now") ELSE Returned(ctx.awsRequestId)

\* part_011, line 15, outside the try: const requestId = context.awsRequestId
requestIdPart011(ctx) ==
    IF ctx = Undefined THEN Threw(ReadOfUndefined)
    ELSE Returned(ctx.awsRequestId)

InitHandler ==
    /\ HandlerAtRest
    /\ WebhookAtRest
    /\ KeysAtRest
    /\ OpsAtRest
    /\ RepairAtRest
    /\ AltAtRest
    /\ BookingAtRest /\ config = Undefined

\* One invocation of exports.handler.
Handler ==
    /\ hCopy = "none"
    /\ \E c \in {"index", "part_011"}, ev \in Events, ctx \in Contexts :
        LET outcome == IF c = "index" THEN handlerIndex(ev) ELSE handlerPart011(ev)
            early   == IF c = "index" THEN requestIdIndex(ctx)
                       ELSE requestIdPart011(ctx)
        IN  /\ hCopy' = c
            /\ event' = ev
            /\ context' = ctx
            /\ IF early.threw
               THEN /\ rejection' = early.error
                    /\ action' = Undefined
                    /\ merged' = Undefined
                    /\ routed' = << >>
                    /\ reply' = Undefined
               ELSE /\ rejection' = Undefined
                    /\ action' = outcome.action
                    /\ merged' = outcome.merged
                    /\ routed' = outcome.routed
                    /\ reply' = outcome.reply
    /\ UNCHANGED <<repairVars, altVars, bookingVars, webhookVars, keyVars, opVars>>

NextHandler == Handler

SpecHandler == InitHandler /\ [][NextHandler]_vars

-----------------------------------------------------------------------------
(* handleVapiWebhook and handleFunctionCall (src/src/index.js, lines        *)
(* 296-496; the same text is in part_011, lines 188-388).                   *)

\* body.type values with a branch of their own, and one without.
functionTypes == {"function", "function-call"}

WebhookTypes == functionTypes \cup {"tool", "transcript", "status-update", "ping"}

\* The cases of the switch of handleFunctionCall (lines 416-433).
functionCases ==
    {"checkAvailability", "createBooking", "rescheduleBooking",
     "cancelBooking", "getBookingDetails"}

\* body.function || body.functionCall?.name
functionNameOf(body) ==
    IF TruthyAt(body, "function") THEN body.function
    ELSE IF Has(body, "functionCall") /\ Has(body.functionCall, "name")
         THEN body.functionCall.name
    ELSE Undefined

\* A decoding whose failure is handed on as an object that holds the error.
parseArgumentsKeepsError(text) ==
    IF text.json = "invalid" THEN [error |-> "SyntaxError"] ELSE text.object

\* JSON.parse(body.functionCall.arguments) in its try: {} when it throws.
parseArguments(text) ==
    IF text.json = "invalid" THEN << >> ELSE text.object

\* Lines 306-318 and 392-405: body.parameters, else functionCall.parameters,
\* else the parsed functionCall.arguments, else undefined; an object is
\* wrapped so that it can be told from undefined.
parametersOf(body) ==
    IF Has(body, "parameters") THEN JsonObject(body.parameters)
    ELSE IF Has(body, "functionCall") /\ Has(body.functionCall, "parameters")
         THEN JsonObject(body.functionCall.parameters)
    ELSE IF Has(body, "functionCall") /\ Has(body.functionCall, "arguments")
         THEN JsonObject(parseArguments(body.functionCall.arguments))
    ELSE Undefined

\* body.callId || body.call?.id || body.message?.call?.id
callIdOf(body) ==
    IF Has(body, "callId") THEN body.callId
    ELSE IF Has(body, "call") /\ Has(body.call, "id") THEN body.call.id
    ELSE IF Has(body, "message") /\ Has(body.message, "call")
            /\ Has(body.message.call, "id")
         THEN body.message.call.id
    ELSE Undefined

\* A property whose value is undefined reads as an absent one and is left
\* out by JSON.stringify.
Defined(key, value) == IF value = Undefined THEN << >> ELSE Field(key, value)

\* Line 324: { function: functionName, parameters, callId }
normalized(body) ==
    Defined("function", functionNameOf(body))
    @@ (IF parametersOf(body) = Undefined THEN << >>
        ELSE Field("parameters", parametersOf(body).object))
    @@ Defined("callId", callIdOf(body))

\* checkAvailability (lines 504-547): everything is inside its try.
checkAvailabilityOutcomes(given) ==
    IF given = Undefined THEN {Returned(handleError(ReadOfUndefined))}
    ELSE IF ~Has(given.object, "startDate")
         THEN {Returned(handleError(
                   ValidationError("Start date is required", "startDate")))}
    ELSE IF ~Has(given.object, "endDate")
         THEN {Returned(handleError(
                   ValidationError("End date is required", "endDate")))}
    ELSE {Returned([statusCode |-> 200,
                    body |-> [success |-> TRUE, availability |-> slots]]) :
              slots \in {<< >>, <<[time |-> given.object.startDate]>>}}
         \cup {Returned(handleError(err)) : err \in FetchErrors}

\* createBooking of index.js (lines 679-812): every failure is answered
\* through handleError; on the legacy shape a provider error meets the
\* undefined ApiError of line 776.
createBookingIndexOutcomes(given) ==
    IF given = Undefined THEN {Returned(handleError(ReadOfUndefined))}
    ELSE IF isV1Format(given.object)
         THEN {Returned(bookedResponse([id |-> "booking-123"]))}
              \cup {Returned(handleError(err)) : err \in FetchErrors}
    ELSE IF firstMissingField(given.object) # ""
         THEN {Returned(handleError(
                   ValidationError("Missing",
                                   firstMissingField(given.object))))}
    ELSE {Returned(bookedResponse([id |-> "booking-123"])),
          Returned(handleError(ApiErrorNotDefined))}

\* createBooking of part_011 (lines 539-769): it has no try of its own
\* around the validation, returns the 200 or the 409 that lists
\* alternativeSlots, and throws every other error.
createBookingPart011Outcomes(given) ==
    IF given = Undefined THEN {Threw(ReadOfUndefined)}
    ELSE IF missingRequired(given.object)
         THEN {Threw(missingParameters(given.object))}
    ELSE {Returned(successResponse(given.object, given.object,
                                   [id |-> "booking-123"]))}
         \cup {Returned(conflictResponse(slots)) :
                   slots \in {<< >>, <<[time |-> "10:00"]>>}}
         \cup {Threw(err) : err \in CalErrors}

createBookingOutcomes(c, given) ==
    IF c = "index" THEN createBookingIndexOutcomes(given)
    ELSE createBookingPart011Outcomes(given)

\* cancelBooking and getBookingDetails (lines 855-905)
\* have no try: a missing field, a provider error and a read of undefined
\* params are thrown to the caller.
bookingIdOutcomes(given, required) ==
    IF given = Undefined THEN {Threw(ReadOfUndefined)}
    ELSE IF \E key \in required : ~Has(given.object, key)
         THEN {Threw(ValidationError("Missing required parameters", "params"))}
    ELSE {Returned([statusCode |-> 200,
                    body |-> [success |-> TRUE,
                              booking |-> [id |-> given.object.bookingId]]])}
         \cup {Threw(err) : err \in FetchErrors}

\* rescheduleBooking of the provider client (part_012, lines 420-449).
rescheduleClient(bookingId, newStartTime, newEndTime) ==
    IF newEndTime = Undefined
    THEN Threw(ValidationError("New end time is required", "newEndTime"))
    ELSE Returned([endpoint |-> "/v2/bookings/reschedule", bookingId |-> bookingId,
                   start |-> newStartTime, end |-> newEndTime, error |-> Undefined])

\* Lines 824-829: a required parameter of rescheduleBooking is missing.
rescheduleFieldMissing(prm) ==
    ~Has(prm, "bookingId") \/ ~Has(prm, "startTime") \/ ~Has(prm, "timeZone")

\* rescheduleBooking (lines 820-837) hands the client two arguments, the
\* second an object, so the client never gets a newEndTime.
rescheduleOutcomes(given) ==
    IF given = Undefined THEN {Threw(ReadOfUndefined)}
    ELSE IF rescheduleFieldMissing(given.object)
         THEN {Threw(ValidationError("Missing required parameters", "params"))}
    ELSE LET client == rescheduleClient(given.object.bookingId, given.object,
                                        Undefined)
         IN  IF client.threw THEN {Threw(client.error)}
             ELSE {Returned([statusCode |-> 200, body |-> [success |-> TRUE]])}

\* Line 899 calls calApi.getBooking, which services/calApi (part_012, lines
\* 480-489) does not export.
getBookingNotAFunction ==
    EngineError("TypeError", "calApi.getBooking is not a function")

\* What the function called by the switch of lines 416-433 may do.
operationOutcomes(c, name, given) ==
    IF name = "checkAvailability" THEN checkAvailabilityOutcomes(given)
    ELSE IF name = "createBooking" THEN createBookingOutcomes(c, given)
    ELSE IF name = "rescheduleBooking" THEN rescheduleOutcomes(given)
    ELSE IF name = "cancelBooking" THEN bookingIdOutcomes(given, {"bookingId"})
    ELSE bookingIdOutcomes(given, {"bookingId"})
         \cup (IF given # Undefined /\ Has(given.object, "bookingId")
               THEN {Threw(getBookingNotAFunction)} ELSE {})

\* Lines 440-455: the conflict of createBooking is repacked, any other
\* parsed result body is passed on as it is.
functionResponseOf(functionName, result) ==
    IF functionName = String("createBooking") /\ result.statusCode = 409
       /\ Has(result.body, "alternativeSlots")
    THEN [success |-> FALSE,
          error |-> result.body.error,
          alternativeSlots |-> result.body.alternativeSlots,
          message |-> result.body.message]
    ELSE result.body

\* An envelope that reports a failure result under the error key.
responseEnvelopeErrorOnFailure(functionName, functionResponse) ==
    [statusCode |-> 200,
     body |-> [response |->
                  [type |-> "function_response",
                   function_response |->
                       Defined("name", functionName)
                       @@ (IF functionResponse.success
                           THEN Field("response", functionResponse)
                           ELSE Field("error", functionResponse.error))]]]

\* Lines 457-473: the envelope of a result.
responseEnvelope(functionName, functionResponse) ==
    [statusCode |-> 200,
     body |-> [response |->
                  [type |-> "function_response",
                   function_response |->
                       Defined("name", functionName)
                       @@ Field("response", functionResponse)]]]

\* An error envelope that keeps the status of the error, as handleError does.
errorEnvelopeWithStatus(functionName, err) ==
    [statusCode |-> IF err.statusCode # 0 THEN err.statusCode ELSE 500,
     body |-> [response |->
                  [type |-> "function_response",
                   function_response |->
                       Defined("name", functionName)
                       @@ Field("error", err.message)]]]

\* Lines 474-494: the envelope of a thrown error.
errorEnvelope(functionName, err) ==
    [statusCode |-> 200,
     body |-> [response |->
                  [type |-> "function_response",
                   function_response |->
                       Defined("name", functionName)
                       @@ Field("error", err.message)]]]

\* An answer of 200 to every webhook that is not a function call.
plainReplyAlwaysOk(body) ==
    [statusCode |-> 200, body |-> [success |-> TRUE]]

\* Lines 338-366: the answers of handleVapiWebhook to a tool it does not
\* know and to the other types.
plainReply(body) ==
    IF body.type = "tool"
    THEN [statusCode |-> 400, body |-> [success |-> FALSE, error |-> "Unknown tool"]]
    ELSE [statusCode |-> 200, body |-> [success |-> TRUE]]

\* Parameters of a booking in the legacy shape, which createBooking of
\* either copy accepts, and in the provider-native shape of index.js.
LegacyParameters ==
    [name |-> "John Doe", email |-> "john@example.com",
     startTime |-> "2026-01-01T00:00:00.000Z", eventTypeId |-> String("123"),
     timeZone |-> "America/New_York"]

NativeParameters ==
    [eventTypeId |-> String("123"), start |-> "2026-01-01T00:00:00.000Z",
     responses |-> [name |-> "John Doe", email |-> "john@example.com"],
     timeZone |-> "America/New_York"]

\* The parameter objects of the webhooks.
WebhookParameters ==
    {<< >>,
     [bookingId |-> "booking-123"],
     [bookingId |-> "booking-123", startTime |-> "2026-01-01T00:00:00.000Z",
      timeZone |-> "America/New_York"],
     [startDate |-> "2026-01-01", endDate |-> "2026-01-02"],
     LegacyParameters,
     NativeParameters}

\* Function names: the five of the switch, one it does not know, and ''.
FunctionNames ==
    {String(name) : name \in functionCases \cup {"sendEmail", ""}}

\* body.functionCall: a name, and parameters or arguments (a JSON text).
FunctionCalls ==
    {a @@ b : a \in Optional("name", {String("createBooking"),
                                     String("cancelBooking"), String("")}),
              b \in {<< >>}
                    \cup {Field("parameters", prm) :
                              prm \in {LegacyParameters, << >>}}
                    \cup {Field("arguments", [json |-> "invalid"]),
                          Field("arguments",
                                [json |-> "object",
                                 object |-> [bookingId |-> "booking-123"]])}}

\* body.tool: a name, and parameters.
Tools ==
    {a @@ b : a \in Optional("name", {String("booking"), String("email")}),
              b \in Optional("parameters", {LegacyParameters, << >>})}

\* The function-call shapes, direct and nested.
FunctionWebhooks ==
    {[type |-> t] @@ a @@ b @@ c @@ d :
        t \in functionTypes,
        a \in Optional("function", FunctionNames),
        b \in Optional("functionCall", FunctionCalls),
        c \in Optional("parameters", WebhookParameters),
        d \in Optional("callId", {String("call-1")})}

ToolWebhooks == {[type |-> "tool"] @@ e : e \in Optional("tool", Tools)}

OtherWebhooks == {[type |-> t] : t \in WebhookTypes \ (functionTypes \cup {"tool"})}

Webhooks == FunctionWebhooks \cup ToolWebhooks \cup OtherWebhooks

InitWebhook ==
    /\ WebhookAtRest
    /\ HandlerAtRest
    /\ KeysAtRest
    /\ OpsAtRest
    /\ RepairAtRest
    /\ AltAtRest
    /\ BookingAtRest /\ config = Undefined

\* One call of a function: its name and the parameters handed to it.
Call(name, given) == [function |-> name, parameters |-> given]

\* Lines 330-331: body.tool?.name and body.tool?.parameters || {}
toolName(body) ==
    IF Has(body, "tool") /\ Has(body.tool, "name") THEN body.tool.name
    ELSE Undefined

toolParameters(body) ==
    IF Has(body, "tool") /\ Has(body.tool, "parameters")
    THEN JsonObject(body.tool.parameters)
    ELSE JsonObject(<< >>)

\* Lines 374-383: the catch of handleVapiWebhook.
webhookFailure(err) ==
    [statusCode |-> 500, body |-> [success |-> FALSE, error |-> err.message]]

\* handleVapiWebhook (lines 296-385), up to its call of handleFunctionCall
\* or, for the booking tool, of createBooking.
HandleVapiWebhook ==
    /\ wpc = "idle"
    /\ \E c \in {"index", "part_011"}, body \in Webhooks :
        /\ wCopy' = c
        /\ webhook' = body
        /\ IF body.type \in functionTypes
           THEN /\ functionCall' = normalized(body)
                /\ envelope' = Undefined
                /\ dispatched' = << >>
                /\ wpc' = "call"
           ELSE IF body.type = "tool" /\ toolName(body) = String("booking")
           THEN /\ functionCall' = Undefined
                /\ envelope' = Undefined
                /\ dispatched' = <<Call("createBooking", toolParameters(body))>>
                /\ wpc' = "operation"
           ELSE /\ functionCall' = Undefined
                /\ envelope' = plainReply(body)
                /\ dispatched' = << >>
                /\ wpc' = "done"
    /\ UNCHANGED wResult
    /\ UNCHANGED <<repairVars, altVars, bookingVars, handlerVars, keyVars, opVars>>

\* handleFunctionCall (lines 387-433), up to the await of the switch; the
\* default case throws into the catch of line 474.
HandleFunctionCall ==
    /\ wpc = "call"
    /\ LET functionName == functionNameOf(functionCall)
       IN  IF functionName # Undefined /\ functionName.value \in functionCases
           THEN /\ wpc' = "operation"
                /\ dispatched' = <<Call(functionName.value,
                                        parametersOf(functionCall))>>
                /\ UNCHANGED envelope
           ELSE /\ wpc' = "done"
                /\ UNCHANGED dispatched
                /\ envelope' = errorEnvelope(functionName,
                                   ValidationError("Unknown function", "function"))
    /\ UNCHANGED <<wCopy, wResult, webhook, functionCall>>
    /\ UNCHANGED <<repairVars, altVars, bookingVars, handlerVars, keyVars, opVars>>

\* The awaited function returns a response: handleFunctionCall wraps it
\* (lines 435-473), the tool branch returns it as it is (line 336).
OperationReturns ==
    /\ wpc = "operation"
    /\ LET functionName == functionNameOf(functionCall)
           call == dispatched[1]
       IN  \E outcome \in operationOutcomes(wCopy, call.function, call.parameters) :
               /\ ~outcome.threw
               /\ wResult' = outcome
               /\ envelope' =
                      IF webhook.type = "tool" THEN outcome.value
                      ELSE responseEnvelope(functionName,
                               functionResponseOf(functionName, outcome.value))
    /\ wpc' = "done"
    /\ UNCHANGED <<wCopy, dispatched, webhook, functionCall>>
    /\ UNCHANGED <<repairVars, altVars, bookingVars, handlerVars, keyVars, opVars>>

\* The awaited function throws: into the catch of handleFunctionCall (lines
\* 474-494), or for the tool branch into that of handleVapiWebhook.
OperationThrows ==
    /\ wpc = "operation"
    /\ LET functionName == functionNameOf(functionCall)
           call == dispatched[1]
       IN  \E outcome \in operationOutcomes(wCopy, call.function, call.parameters) :
               /\ outcome.threw
               /\ wResult' = outcome
               /\ envelope' =
                      IF webhook.type = "tool" THEN webhookFailure(outcome.error)
                      ELSE errorEnvelope(functionName, outcome.error)
    /\ wpc' = "done"
    /\ UNCHANGED <<wCopy, dispatched, webhook, functionCall>>
    /\ UNCHANGED <<repairVars, altVars, bookingVars, handlerVars, keyVars, opVars>>

NextWebhook ==
    \/ HandleVapiWebhook
    \/ HandleFunctionCall
    \/ OperationReturns
    \/ OperationThrows

SpecWebhook == InitWebhook /\ [][NextWebhook]_vars

-----------------------------------------------------------------------------
(* findAvailability and getAvailableSlots (src/src/index.js, lines 555-669) *)
(* with the clients getAvailabilityV1 and getSlots (part_012, lines 132-156 *)
(* and 212-268), for several requests in flight in one process.  An async   *)
(* function runs without interruption up to its first await, here the       *)
(* fetch of callCalApi (part_012, line 40), so each request is one step up  *)
(* to the provider call and one step for the provider's answer.             *)

\* The requests that may be in flight together.
MaxRequests == 2

RequestIds == 1..MaxRequests

\* config.cal.apiKey as loaded from the environment.
DefaultApiKey == "cal_live_default"

InitialConfig ==
    [cal |-> [apiKey |-> DefaultApiKey, eventTypeId |-> DefaultEventTypeId]]

\* A request of the model: where it stands, the function that serves it, its
\* params, the provider call it issued and its response.
InFlight(at, op, prm, call, rsp) ==
    [pc |-> at, op |-> op, params |-> prm, call |-> call, reply |-> rsp]

NotStarted == InFlight("idle", Undefined, Undefined, Undefined, Undefined)

\* parseInt(params.id, 10) followed by isNaN: the ids of the model.
NumericIds == {"42"}

\* A read of the shared key that misses the write of the request.
withRequestKeyUnwritten(cfg, key) == cfg

\* config.cal.apiKey = params.apiKey (lines 570 and 626).
withRequestKey(cfg, key) == [cfg EXCEPT !.cal.apiKey = key]

\* Lines 567-571: the override of findAvailability.
configAfterFind(cfg, prm) ==
    IF Has(prm, "apiKey") THEN withRequestKey(cfg, prm.apiKey) ELSE cfg

\* getAvailabilityV1 (part_012, lines 132-156): the key of the query string
\* is read from the shared configuration.
getAvailabilityV1Call(cfg, id) ==
    [op |-> "getAvailabilityV1", id |-> id, apiKey |-> cfg.cal.apiKey]

\* Lines 623-624: params.apiKey || params.api_key || config.cal.apiKey
slotsApiKey(cfg, prm) ==
    IF Has(prm, "apiKey") THEN prm.apiKey
    ELSE IF Has(prm, "api_key") THEN prm.api_key
    ELSE cfg.cal.apiKey

\* Lines 625-628: the override of getAvailableSlots.
configAfterSlots(cfg, prm) ==
    IF slotsApiKey(cfg, prm) # "" /\ slotsApiKey(cfg, prm) # cfg.cal.apiKey
    THEN withRequestKey(cfg, slotsApiKey(cfg, prm))
    ELSE cfg

\* Lines 637-642 and getSlots (part_012, lines 212-268): apiParams.apiKey is
\* config.cal.apiKey, and getSlots puts params.apiKey in the query string.
getSlotsCall(cfg, prm) ==
    [op |-> "getSlots",
     eventTypeId |-> IF Has(prm, "eventTypeId") THEN prm.eventTypeId
                     ELSE cfg.cal.eventTypeId,
     apiKey |-> cfg.cal.apiKey]

\* The keys requests bring along.
RequestKeys == {"cal_live_alice", "cal_live_bob"}

FindParams ==
    {a @@ b : a \in Optional("id", {"42", "abc"}),
              b \in Optional("apiKey", RequestKeys)}

SlotsParams ==
    {b @@ c : b \in Optional("apiKey", RequestKeys),
              c \in Optional("api_key", RequestKeys)}

InitKeys ==
    /\ requests = [r \in RequestIds |-> NotStarted]
    /\ config = InitialConfig
    /\ BookingAtRest
    /\ RepairAtRest
    /\ AltAtRest
    /\ HandlerAtRest
    /\ WebhookAtRest
    /\ OpsAtRest

\* The variables the requests in flight leave alone.
keysFrame ==
    <<copy, pc, bNow, request, params, calls, preflight, error, widened,
      availabilityError, response, repairVars, altVars, handlerVars,
      webhookVars, opVars>>

\* findAvailability (lines 555-576), up to the fetch.
FindAvailability(r) ==
    /\ requests[r].pc = "idle"
    /\ \E prm \in FindParams :
        IF ~Has(prm, "id")
        THEN /\ requests' = [requests EXCEPT ![r] =
                   InFlight("done", "findAvailability", prm, Undefined,
                       handleError(ValidationError("Availability ID is required",
                                                   "id")))]
             /\ UNCHANGED config
        ELSE IF prm.id \notin NumericIds
        THEN /\ requests' = [requests EXCEPT ![r] =
                   InFlight("done", "findAvailability", prm, Undefined,
                       handleError(ValidationError("Invalid availability ID",
                                                   "id")))]
             /\ UNCHANGED config
        ELSE /\ config' = configAfterFind(config, prm)
             /\ requests' = [requests EXCEPT ![r] =
                   InFlight("await", "findAvailability", prm,
                            getAvailabilityV1Call(configAfterFind(config, prm),
                                                  prm.id),
                            Undefined)]
    /\ UNCHANGED keysFrame

\* getAvailableSlots (lines 597-652), up to the fetch.
GetAvailableSlots(r) ==
    /\ requests[r].pc = "idle"
    /\ \E prm \in SlotsParams :
        /\ config' = configAfterSlots(config, prm)
        /\ requests' = [requests EXCEPT ![r] =
              InFlight("await", "getAvailableSlots", prm,
                       getSlotsCall(configAfterSlots(config, prm), prm),
                       Undefined)]
    /\ UNCHANGED keysFrame

\* The provider answers the call of a request.
ProviderReturns(r) ==
    /\ requests[r].pc = "await"
    /\ requests' = [requests EXCEPT ![r].pc = "done",
                                    ![r].reply = [statusCode |-> 200,
                                                  body |-> [success |-> TRUE]]]
    /\ UNCHANGED config
    /\ UNCHANGED keysFrame

\* The provider call of a request fails.
ProviderFails(r) ==
    /\ requests[r].pc = "await"
    /\ \E err \in {AuthError("Authentication failed"),
                   PlainError("Error calling Cal.com API", 0, "", FALSE)} :
        requests' = [requests EXCEPT ![r].pc = "done",
                                     ![r].reply = handleError(err)]
    /\ UNCHANGED config
    /\ UNCHANGED keysFrame

NextKeys ==
    \E r \in RequestIds :
        \/ FindAvailability(r)
        \/ GetAvailableSlots(r)
        \/ ProviderReturns(r)
        \/ ProviderFails(r)

SpecKeys == InitKeys /\ [][NextKeys]_vars

-----------------------------------------------------------------------------
(* handleTrialStarted (src/src/index.js, lines 210-288) with the voice      *)
(* platform client (part_002), and rescheduleBooking and cancelBooking      *)
(* (lines 820-880) with the provider client (part_012, lines 420-466),      *)
(* under exports.handler, which answers a thrown error with handleError.    *)

\* POST /call/sip and POST /call (part_002, lines 63-113).
sipCall(assistantId, callConfig) ==
    [endpoint |-> "/call/sip", assistantId |-> assistantId,
     number |-> callConfig.phoneNumber, error |-> Undefined]

plainCall(assistantId, callConfig) ==
    [endpoint |-> "/call", assistantId |-> assistantId,
     number |-> callConfig.phoneNumber, error |-> Undefined]

\* Lines 215-221: a field of the body is missing.
trialFieldMissing(body) ==
    ~Has(body, "name") \/ ~Has(body, "email") \/ ~Has(body, "phoneNumber")

\* Lines 231-239: callConfig.
callConfigOf(body) ==
    [phoneNumber |-> body.phoneNumber,
     metadata |-> [userId |-> body.email, userName |-> body.name,
                   userEmail |-> body.email, userPhone |-> body.phoneNumber]]

\* Lines 269-277: the response to a call that was created.
callInitiated(call) ==
    [statusCode |-> 200,
     body |-> [success |-> TRUE, callId |-> call.id,
               message |-> "Call initiated successfully"]]

\* A failure answered with success:true.
trialFailureAsSuccess(err) ==
    [statusCode |-> IF err.statusCode # 0 THEN err.statusCode ELSE 500,
     body |-> [success |-> TRUE, error |-> err.message]]

\* Lines 278-286: the catch of handleTrialStarted.
trialFailure(err) ==
    [statusCode |-> IF err.statusCode # 0 THEN err.statusCode ELSE 500,
     body |-> [success |-> FALSE, error |-> err.message]]

\* What callVapiApi resolves to (response.json()): a call, or null.
CallData == {JsonObject([id |-> "call-1"]), JsonNull}

\* What callVapiApi throws (part_002, lines 31-59).
VapiErrors ==
    {AuthError("Authentication failed"),
     ValidationError("Invalid request", "unknown"),
     PlainError("Error calling VAPI API", 0, "", FALSE)}

\* Line 266: throw error || new Error('Failed to initiate call ...')
noCall(err) ==
    IF err = Undefined
    THEN PlainError("Failed to initiate call through any method", 0, "", FALSE)
    ELSE err

\* cancelBooking of the provider client (part_012, lines 452-466).
cancelClient(bookingId, cancellationReason) ==
    [endpoint |-> "/v2/bookings", bookingId |-> bookingId,
     cancellationReason |-> cancellationReason, error |-> Undefined]

\* Lines 831-835: rescheduleDetails.
rescheduleDetails(prm, cfg) ==
    [startTime |-> prm.startTime,
     endTime |-> IF Has(prm, "endTime") THEN prm.endTime
                 ELSE toISOString(DateAdd(DateParse(prm.startTime),
                                          Minutes(cfg.app.defaultDuration))),
     timeZone |-> prm.timeZone]

\* Lines 861-868: cancelDetails.
cancelDetails(prm) ==
    [reason |-> IF Has(prm, "reason") THEN prm.reason ELSE "Cancelled by user"]

\* The 200 of rescheduleBooking and of cancelBooking.
bookingChanged(message) ==
    [statusCode |-> 200,
     body |-> [success |-> TRUE, booking |-> [id |-> "booking-123"],
               message |-> message]]

TrialBodies ==
    {a @@ b @@ c : a \in Optional("name", {"John Doe"}),
                   b \in Optional("email", {"john@example.com", "jane@example.com"}),
                   c \in Optional("phoneNumber", {"+15551234567", "+15557654321"})}

RescheduleParams ==
    {a @@ b @@ c @@ d :
        a \in Optional("bookingId", {"booking-123"}),
        b \in Optional("startTime", IndexStarts),
        c \in Optional("endTime",
                       {IsoAt(BaseYear + 2, 1, 1, <<1, 0, 0, 0>>)}),
        d \in Optional("timeZone", {"America/New_York"})}

CancelParams ==
    {a @@ b : a \in Optional("bookingId", {"booking-123"}),
              b \in Optional("reason", {"No longer needed"})}

\* config.vapi.assistantId is getEnv('VAPI_ASSISTANT_ID', ''): set or empty.
InitOps ==
    /\ OpsAtRest
    /\ config \in {[vapi |-> [assistantId |-> a],
                    app |-> [defaultDuration |-> DefaultDuration]] :
                      a \in {"", "assistant-1"}}
    /\ BookingAtRest
    /\ RepairAtRest
    /\ AltAtRest
    /\ HandlerAtRest
    /\ WebhookAtRest
    /\ KeysAtRest

\* The variables these functions leave alone.
opsFrame ==
    <<repairVars, altVars, bookingVars, handlerVars, webhookVars, keyVars>>

\* handleTrialStarted (lines 210-246), up to the await of the SIP call.
HandleTrialStarted ==
    /\ opc = "idle"
    /\ \E body \in TrialBodies :
        /\ opName' = "handleTrialStarted"
        /\ opParams' = body
        /\ IF trialFieldMissing(body)
           THEN /\ opReply' = [statusCode |-> 400,
                               body |-> [success |-> FALSE,
                                         error |-> "Missing required parameters"]]
                /\ opCalls' = << >>
                /\ opc' = "done"
           ELSE IF config.vapi.assistantId = ""
           THEN /\ opReply' = trialFailure(
                      PlainError("No VAPI assistant ID configured", 0, "", FALSE))
                /\ opCalls' = << >>
                /\ opc' = "done"
           ELSE /\ opCalls' = <<sipCall(config.vapi.assistantId, callConfigOf(body))>>
                /\ opReply' = Undefined
                /\ opc' = "awaitSip"
    /\ UNCHANGED opsFrame

\* The SIP call resolves (lines 247-248, 265-277).
SipReturns ==
    /\ opc = "awaitSip"
    /\ \E data \in CallData :
        opReply' = IF data = JsonNull THEN trialFailure(noCall(Undefined))
                   ELSE callInitiated(data.object)
    /\ opc' = "done"
    /\ UNCHANGED <<opName, opParams, opCalls>>
    /\ UNCHANGED opsFrame

\* The SIP call throws: the plain call is tried (lines 249-256).
SipFails ==
    /\ opc = "awaitSip"
    /\ \E err \in VapiErrors :
        opCalls' = <<[opCalls[1] EXCEPT !.error = err],
                     plainCall(config.vapi.assistantId, callConfigOf(opParams))>>
    /\ opc' = "awaitPlain"
    /\ UNCHANGED <<opName, opParams, opReply>>
    /\ UNCHANGED opsFrame

\* The plain call resolves (lines 256-257, 265-277).
PlainReturns ==
    /\ opc = "awaitPlain"
    /\ \E data \in CallData :
        opReply' = IF data = JsonNull THEN trialFailure(noCall(opCalls[1].error))
                   ELSE callInitiated(data.object)
    /\ opc' = "done"
    /\ UNCHANGED <<opName, opParams, opCalls>>
    /\ UNCHANGED opsFrame

\* The plain call throws too (lines 258-267, 278-286).
PlainFails ==
    /\ opc = "awaitPlain"
    /\ \E err \in VapiErrors :
        /\ opCalls' = [opCalls EXCEPT ![2].error = err]
        /\ opReply' = trialFailure(noCall(err))
    /\ opc' = "done"
    /\ UNCHANGED <<opName, opParams>>
    /\ UNCHANGED opsFrame

\* rescheduleBooking (lines 820-837), up to the await of the provider call.
RescheduleBooking ==
    /\ opc = "idle"
    /\ \E prm \in RescheduleParams :
        /\ opName' = "rescheduleBooking"
        /\ opParams' = prm
        /\ IF rescheduleFieldMissing(prm)
           THEN /\ opReply' = handleError(
                      ValidationError("Missing required parameters", "params"))
                /\ opCalls' = << >>
                /\ opc' = "done"
           ELSE LET client == rescheduleClient(prm.bookingId,
                                               rescheduleDetails(prm, config),
                                               Undefined)
                IN  IF client.threw
                    THEN /\ opReply' = handleError(client.error)
                         /\ opCalls' = << >>
                         /\ opc' = "done"
                    ELSE /\ opReply' = Undefined
                         /\ opCalls' = <<client.value>>
                         /\ opc' = "awaitProvider"
    /\ UNCHANGED opsFrame

\* cancelBooking (lines 855-870), up to the await of the provider call.
CancelBooking ==
    /\ opc = "idle"
    /\ \E prm \in CancelParams :
        /\ opName' = "cancelBooking"
        /\ opParams' = prm
        /\ IF ~Has(prm, "bookingId")
           THEN /\ opReply' = handleError(
                      ValidationError("Missing required parameters", "params"))
                /\ opCalls' = << >>
                /\ opc' = "done"
           ELSE /\ opReply' = Undefined
                /\ opCalls' = <<cancelClient(prm.bookingId, cancelDetails(prm))>>
                /\ opc' = "awaitProvider"
    /\ UNCHANGED opsFrame

\* The provider accepts the change (lines 839-846 and 872-879).
ChangeReturns ==
    /\ opc = "awaitProvider"
    /\ opReply' = bookingChanged(IF opName = "rescheduleBooking"
                                 THEN "Booking rescheduled successfully"
                                 ELSE "Booking cancelled successfully")
    /\ opc' = "done"
    /\ UNCHANGED <<opName, opParams, opCalls>>
    /\ UNCHANGED opsFrame

\* The provider call throws; exports.handler answers with handleError.
ChangeFails ==
    /\ opc = "awaitProvider"
    /\ \E err \in FetchErrors :
        /\ opCalls' = [opCalls EXCEPT ![1].error = err]
        /\ opReply' = handleError(err)
    /\ opc' = "done"
    /\ UNCHANGED <<opName, opParams>>
    /\ UNCHANGED opsFrame

NextOps ==
    \/ HandleTrialStarted
    \/ SipReturns
    \/ SipFails
    \/ PlainReturns
    \/ PlainFails
    \/ RescheduleBooking
    \/ CancelBooking
    \/ ChangeReturns
    \/ ChangeFails

SpecOps == InitOps /\ [][NextOps]_vars

-----------------------------------------------------------------------------
(* Claims on DateRepair (SpecRepair).                                       *)

\* C5: a start time dated in a year before the current one is repaired to a
\* start time of the current year or later, strictly after now, with the
\* month, day, hour and minute of the request (29 February included).
C5_PastYearKeepsMonthDay ==
    (rOut # Undefined /\ rStart.y < getFullYear(rNow)) =>
        /\ rOut.y >= getFullYear(rNow)
        /\ DateLT(rNow, DateParse(rOut))
        /\ rOut.mo = rStart.mo /\ rOut.d = rStart.d
        /\ rOut.h = rStart.h /\ rOut.mi = rStart.mi

C7_EndShiftedBySameOffset ==
    (rOut # Undefined /\ rShifted /\ rEnd # Undefined) =>
        DateSub(DateParse(rEndOut), DateParse(rOut))
            = DateSub(DateParse(rEnd), DateParse(rStart))

-----------------------------------------------------------------------------
(* Claims on findAlternativeTimeSlots (SpecAlt).                            *)

-----------------------------------------------------------------------------
(* Claims on createBooking (Spec).                                          *)

\* The positions in calls of the calls of one provider operation.
CallsOf(op) == {i \in 1..Len(calls) : calls[i].op = op}

\* The attempt under way is of the legacy call shape.
LegacyAttempt ==
    \/ copy = "part_011"
    \/ copy = "index" /\ ~isV1Format(request)

\* The fields each copy requires of a legacy request, in the order its
\* validation reads them.
RequiredFields ==
    IF copy = "part_011" THEN <<"name", "email", "startTime", "timeZone">>
    ELSE <<"name", "email", "startTime", "eventTypeId", "timeZone">>

\* The first required field the request lacks, "" when it has them all.
FirstMissing ==
    LET missing == {i \in 1..Len(RequiredFields) : ~Has(request, RequiredFields[i])}
    IN  IF missing = {} THEN ""
        ELSE RequiredFields[CHOOSE i \in missing : \A j \in missing : i <= j]

\* C1: an attempt whose availability check reports the requested start time
\* as not available ends with HTTP 409, success:false and a non-empty
\* alternativeSlots array, whatever set the provider returned, the empty set
\* included.
C1_ConflictHasAlternatives ==
    (/\ pc = "done"
     /\ preflight.returned
     /\ ~isTimeSlotAvailable(preflight.slots, checkedStartTime(request, params))) =>
        /\ response.statusCode = 409
        /\ response.body.success = FALSE
        /\ Len(response.body.alternativeSlots) > 0

\* C1, as amended: such an attempt ends with HTTP 409, success:false and an
\* alternativeSlots array that is non-empty exactly when the availability set
\* the provider returned is non-empty.
C1_AlternativesWhenAnySlot ==
    (/\ pc = "done"
     /\ preflight.returned
     /\ ~isTimeSlotAvailable(preflight.slots, checkedStartTime(request, params))) =>
        /\ response.statusCode = 409
        /\ response.body.success = FALSE
        /\ Len(response.body.alternativeSlots) > 0 <=> preflight.slots # << >>

\* The availability query found the requested time missing among two slots, and the 409
\* response offers both.
C1_Witness ==
    /\ pc = "done"
    /\ preflight.returned
    /\ Len(preflight.slots) = 2
    /\ ~isTimeSlotAvailable(preflight.slots, checkedStartTime(request, params))
    /\ response.statusCode = 409
    /\ Len(response.body.alternativeSlots) = 2

\* C3: a legacy attempt issues the provider's booking-create at most once,
\* and only after an availability query of the same request has returned a
\* set that holds the requested start time.
C3_BookingOnlyAfterAvailability ==
    LegacyAttempt =>
        /\ Cardinality(CallsOf("createBooking")) <= 1
        /\ \A i \in CallsOf("createBooking") :
              /\ \E j \in CallsOf("getAvailability") : j < i
              /\ preflight.returned
              /\ isTimeSlotAvailable(preflight.slots, request.startTime)

\* C4: once DateRepair has shifted the start time, the availability window is
\* the one around the repaired date, the exact-match test that lets the
\* booking through is made on the repaired time, and the booking sent to the
\* provider carries the repaired start.
C4_RepairedStartUsedDownstream ==
    (/\ copy = "part_011"
     /\ calls # << >>
     /\ params.startTime # request.startTime) =>
        /\ calls[1].startDate = availabilityWindow(params.startTime, 1, 1).startDate
        /\ calls[1].endDate = availabilityWindow(params.startTime, 1, 1).endDate
        /\ CallsOf("createBooking") # {} =>
              isTimeSlotAvailable(preflight.slots, params.startTime)
        /\ \A i \in CallsOf("createBooking") :
              calls[i].details.startTime = params.startTime

\* C8: a 200 response of createBooking carries dateAdjusted, which is true,
\* with the original and the adjusted timestamp and a note in the message,
\* exactly when DateRepair shifted the start time; when it did not,
\* dateAdjusted is false and the two timestamps are equal.
C8_DateAdjustedReported ==
    (pc = "done" /\ response.statusCode = 200) =>
        LET shifted == /\ Has(request, "startTime")
                       /\ params.startTime # request.startTime
        IN  /\ Has(response.body, "dateAdjusted")
            /\ response.body.dateAdjusted = shifted
            /\ Has(response.body, "originalDate")
            /\ Has(response.body, "adjustedDate")
            /\ shifted =>
                  /\ response.body.originalDate = request.startTime
                  /\ response.body.adjustedDate = params.startTime
                  /\ Has(response.body.message, "note")
            /\ ~shifted => response.body.originalDate = response.body.adjustedDate

\* C9: a legacy request that lacks a required field is answered with HTTP 400
\* and a ValidationError whose field is the first missing one in the order
\* the fields are checked, and no provider call is made for it.
C9_MissingFieldRejected ==
    (pc # "idle" /\ LegacyAttempt /\ FirstMissing # "") =>
        /\ pc = "done"
        /\ response.statusCode = 400
        /\ response.body.type = "ValidationError"
        /\ Has(response.body, "field")
        /\ response.body.field = FirstMissing
        /\ calls = << >>

\* C10: a legacy request with name, email, startTime and timeZone and no
\* eventTypeId passes validation, and once the provider has accepted the
\* booking the response is HTTP 200 with success:true, the provider's
\* booking record and a message.
C10_LegacyWithoutEventTypeId ==
    (/\ pc # "idle"
     /\ LegacyAttempt
     /\ \A k \in {"name", "email", "startTime", "timeZone"} : Has(request, k)
     /\ ~Has(request, "eventTypeId")) =>
        /\ ~(/\ pc = "done"
             /\ calls = << >>
             /\ response.body.type = "ValidationError")
        /\ (/\ pc = "done"
            /\ error = Undefined
            /\ CallsOf("createBooking") # {}) =>
              /\ response.statusCode = 200
              /\ response.body.success = TRUE
              /\ response.body.booking =
                    BookingRecord(calls[Len(calls)].details)
              /\ Has(response.body, "message")

-----------------------------------------------------------------------------
(* Claims on the provider's rejections (Spec).                              *)

\* The HTTP status handleError is to give an error: its own, or 500.
StatusOf(err) == IF err.statusCode # 0 THEN err.statusCode ELSE 500

\* C11: when the provider rejects the booking-create call as already booked,
\* createBooking answers HTTP 409 with success:false and an alternativeSlots
\* field (the case of a failed widened lookup is left to C13).
C11_RejectionCarriesAlternatives ==
    (/\ pc = "done"
     /\ CallsOf("createBooking") # {}
     /\ error # Undefined
     /\ error.alreadyBooked
     /\ availabilityError = Undefined) =>
        /\ response.statusCode = 409
        /\ response.body.success = FALSE
        /\ Has(response.body, "alternativeSlots")

\* C12: the alternatives of every conflict response come from a second
\* availability query, over the window from 3 days before to 7 days after the
\* requested date, and not from the window of the pre-flight check.
C12_AlternativesFromWidenedLookup ==
    (/\ pc = "done"
     /\ response.statusCode = 409
     /\ Has(response.body, "alternativeSlots")) =>
        LET startTime == checkedStartTime(request, params)
            window    == availabilityWindow(startTime, 3, 7)
        IN  /\ \E i \in CallsOf("getAvailability") :
                  /\ i > 1
                  /\ calls[i].startDate = window.startDate
                  /\ calls[i].endDate = window.endDate
            /\ widened.returned
            /\ response.body.alternativeSlots =
                  findAlternativeTimeSlots(widened.slots, startTime, MaxAlternatives)

\* C13: when the widened lookup made after a rejected booking fails, the
\* response is that of the booking-create error, with its message and
\* status: not a 409, not a list of alternatives, not the lookup's error.
C13_LookupFailureSurfacesOriginal ==
    (/\ pc = "done"
     /\ CallsOf("createBooking") # {}
     /\ availabilityError # Undefined) =>
        /\ response.statusCode = StatusOf(error)
        /\ response.statusCode # 409
        /\ response.body.success = FALSE
        /\ response.body.error = error.message
        /\ response.body.type = error.name
        /\ ~Has(response.body, "alternativeSlots")

\* The booking was rejected as already booked, the widened lookup failed with
\* an authentication error, and the response is that of the rejection.
C13_Witness ==
    /\ pc = "done"
    /\ CallsOf("createBooking") # {}
    /\ error # Undefined
    /\ error.alreadyBooked
    /\ availabilityError # Undefined
    /\ availabilityError.name = "AuthError"
    /\ response.statusCode = 400
    /\ response.body.error = error.message

\* C14: a provider error on booking-create that is not a booking conflict
\* gives a failure response with the status the error carries, 500 when it
\* carries none, and booking-create is not issued again.
C14_OtherProviderErrorKeepsStatus ==
    (/\ pc = "done"
     /\ CallsOf("createBooking") # {}
     /\ error # Undefined
     /\ ~error.alreadyBooked) =>
        /\ response.statusCode = StatusOf(error)
        /\ response.body.success = FALSE
        /\ Cardinality(CallsOf("createBooking")) = 1

-----------------------------------------------------------------------------
(* Claims on the action resolution (SpecHandler).                           *)

\* The request asks for createBooking in its query string or by its path.
AsksCreateBooking ==
    \/ /\ Has(queryParamsOf(event), "action")
       /\ queryParamsOf(event).action = String("createBooking")
    \/ lastPathPart(event) = "createBooking"

\* The parsed body has a field action.
BodyHasAction ==
    /\ Has(event, "body")
    /\ event.body.json = "object"
    /\ Has(event.body.object, "action")

C16_NoSignalIsWebhook ==
    (/\ hCopy # "none"
     /\ pathParts(event) = << >>
     /\ ~TruthyAt(queryParamsOf(event), "action")
     /\ ~BodyHasAction) =>
        /\ action = String("handleVapiWebhook")
        /\ routed = <<"handleVapiWebhook">>

\* C17: without an action query parameter, a request whose last path segment
\* is one of the ten actions resolves to that segment.
C17_KnownPathSegmentResolves ==
    (/\ hCopy = "index"
     /\ event.httpMethod # "OPTIONS"
     /\ ~Has(queryParamsOf(event), "action")
     /\ lastPathPart(event) \in VALID_ACTIONS) =>
        action = String(lastPathPart(event))

\* C18: a request other than OPTIONS either reaches exactly one function,
\* that of one of the ten actions, or is answered 400 with a ValidationError
\* on the field action; an action outside the ten always gets the 400 and
\* reaches no function.
C18_OneHandlerOrValidationError ==
    (hCopy # "none" /\ event.httpMethod # "OPTIONS") =>
        LET rejected == /\ routed = << >>
                        /\ reply # Undefined
                        /\ reply.statusCode = 400
                        /\ reply.body.type = "ValidationError"
                        /\ Has(reply.body, "field")
                        /\ reply.body.field = "action"
            served   == /\ Len(routed) = 1
                        /\ reply = Undefined
                        /\ action.type = "string"
                        /\ action.value \in VALID_ACTIONS
                        /\ routed[1] = handlerOf(action.value)
        IN  /\ served \/ rejected
            /\ (/\ action # Undefined
                /\ ~(action.type = "string" /\ action.value \in VALID_ACTIONS))
                    => rejected

\* C19: in the merged params every key of the parsed body keeps the body's
\* value, whatever the value, and a query parameter is copied in exactly for
\* the keys the body lacks (action aside, which is the resolved action).
C19_BodyKeysKeepValues ==
    (/\ hCopy = "index"
     /\ merged # Undefined
     /\ Has(event, "body")
     /\ event.body.json = "object") =>
        LET obj   == event.body.object
            query == queryParamsOf(event)
        IN  /\ \A k \in DOMAIN obj : Has(merged, k) /\ merged[k] = obj[k]
            /\ \A k \in (DOMAIN query \ DOMAIN obj) \ {"action"} :
                  Has(merged, k) /\ merged[k] = query[k]
            /\ DOMAIN merged \subseteq DOMAIN obj \cup DOMAIN query \cup {"action"}


-----------------------------------------------------------------------------
(* Claims on the voice-webhook envelope (SpecWebhook).                      *)

\* The function-call webhook has been answered.
FunctionCallAnswered == wpc = "done" /\ webhook.type \in functionTypes

\* The function_response object of the envelope.
FunctionResponse == envelope.body.response.function_response

\* HTTP 200, type function_response, and exactly one of response and error.
EnvelopeShape ==
    /\ envelope.statusCode = 200
    /\ DOMAIN envelope.body = {"response"}
    /\ envelope.body.response.type = "function_response"
    /\ Has(FunctionResponse, "response") # Has(FunctionResponse, "error")
    /\ DOMAIN FunctionResponse \subseteq {"name", "response", "error"}

WebhookBookingConflict ==
    /\ FunctionCallAnswered
    /\ dispatched # << >> /\ dispatched[1].function = "createBooking"
    /\ wResult # Undefined /\ ~wResult.threw
    /\ wResult.value.statusCode = 409

\* C21: whenever createBooking, called for a function-call webhook, ends in
\* a booking conflict (inner status 409), function_response.response has
\* both alternativeSlots and message.
C21_ConflictEnvelopeHasAlternatives ==
    WebhookBookingConflict =>
        /\ Has(FunctionResponse, "response")
        /\ Has(FunctionResponse.response, "alternativeSlots")
        /\ Has(FunctionResponse.response, "message")

\* The function name of the webhook is one of the switch.
NamesKnownFunction ==
    /\ functionNameOf(webhook) # Undefined
    /\ functionNameOf(webhook).value \in functionCases

C23_OnlyBookingToolRouted ==
    (wpc \in {"operation", "done"} /\ webhook.type = "tool") =>
        IF Has(webhook, "tool") /\ Has(webhook.tool, "name")
           /\ webhook.tool.name = String("booking")
        THEN dispatched
                 = <<Call("createBooking",
                          JsonObject(IF Has(webhook.tool, "parameters")
                                     THEN webhook.tool.parameters ELSE << >>))>>
        ELSE /\ dispatched = << >>
             /\ wResult = Undefined
             /\ wpc = "done"
             /\ envelope.statusCode = 400
             /\ envelope.body.success = FALSE

\* A tool webhook with another tool name, answered.
C23_Witness ==
    /\ wpc = "done" /\ webhook.type = "tool"
    /\ Has(webhook, "tool") /\ Has(webhook.tool, "name")
    /\ webhook.tool.name = String("email")
    /\ envelope.statusCode = 400

-----------------------------------------------------------------------------
(* Claims on the outermost handler (SpecHandler).                           *)

\* exports.handler has run.
HandlerRan == hCopy # "none"

\* C26: for every event and context (an absent context, an absent or
\* malformed body and an unknown action included) the exported handler
\* resolves: it never rejects, it answers itself with a statusCode and a
\* body or hands on the response of the one function it called, and an
\* answer made from an exception has success:false.
C26_HandlerNeverRejects ==
    HandlerRan =>
        /\ rejection = Undefined
        /\ IF reply = Undefined THEN Len(routed) = 1
           ELSE /\ Has(reply, "statusCode") /\ Has(reply, "body")
                /\ (reply # optionsResponse => reply.body.success = FALSE)

\* The event without its body.
EventWithoutBody == [k \in DOMAIN event \ {"body"} |-> event[k]]

\* What the handler that ran does with the event without its body.
AsWithoutBody ==
    IF hCopy = "index" THEN handlerIndex(EventWithoutBody)
    ELSE handlerPart011(EventWithoutBody)

\* C27: a request whose body is not valid JSON is processed as if its body
\* were the empty object: the action, the params and the dispatch are those
\* of the same request without a body, and no parse error is answered.
C27_MalformedBodyIsEmptyObject ==
    (HandlerRan /\ rejection = Undefined
     /\ Has(event, "body") /\ event.body.json = "invalid") =>
        /\ action = AsWithoutBody.action
        /\ merged = AsWithoutBody.merged
        /\ routed = AsWithoutBody.routed
        /\ reply = AsWithoutBody.reply

-----------------------------------------------------------------------------
(* Claims on the per-request API key (SpecKeys).                            *)

\* The key a request supplies, "" when it supplies none.
SuppliedKey(req) ==
    IF Has(req.params, "apiKey") THEN req.params.apiKey
    ELSE IF req.op = "getAvailableSlots" /\ Has(req.params, "api_key")
         THEN req.params.api_key
    ELSE ""

\* The requests that have issued their provider call.
Issued == {r \in DOMAIN requests : requests[r].call # Undefined}

\* C24: a per-request API key given to findAvailability or
\* getAvailableSlots is never written into the shared configuration: after
\* any interleaving the shared default key has its initial value, and a
\* request that supplies no key has its provider call made with the default
\* key.
C24_SharedKeyNeverWritten ==
    requests # << >> =>
        /\ config.cal.apiKey = DefaultApiKey
        /\ \A r \in Issued :
              SuppliedKey(requests[r]) = "" =>
                  requests[r].call.apiKey = DefaultApiKey

\* C29: under any interleaving, a findAvailability or getAvailableSlots
\* request that supplies its own key has its own provider call issued with
\* exactly that key.
C29_OwnKeyUsed ==
    \A r \in Issued :
        SuppliedKey(requests[r]) # "" =>
            requests[r].call.apiKey = SuppliedKey(requests[r])

\* Two requests in flight at once, one for each function, each with a key
\* of its own and a provider call that carries it.
C29_Witness ==
    \E r1, r2 \in Issued :
        /\ requests[r1].pc = "await" /\ requests[r2].pc = "await"
        /\ requests[r1].op = "findAvailability"
        /\ requests[r2].op = "getAvailableSlots"
        /\ SuppliedKey(requests[r1]) # ""
        /\ SuppliedKey(requests[r2]) # ""
        /\ SuppliedKey(requests[r1]) # SuppliedKey(requests[r2])
        /\ requests[r1].call.apiKey = SuppliedKey(requests[r1])
        /\ requests[r2].call.apiKey = SuppliedKey(requests[r2])

-----------------------------------------------------------------------------
(* Claims on the trial call and on rescheduling (SpecOps).                  *)

\* handleTrialStarted has answered.
TrialAnswered == opc = "done" /\ opName = "handleTrialStarted"

\* The endpoints of the calls attempted, in order.
Attempts == [i \in DOMAIN opCalls |-> opCalls[i].endpoint]

\* The order of the attempts: SIP first and once, the plain call only after
\* the SIP call failed and once, and a failure answered when both failed.
AttemptsInOrder ==
    /\ Attempts \in {<<"/call/sip">>, <<"/call/sip", "/call">>}
    /\ (Len(Attempts) = 2 <=> opCalls[1].error # Undefined)
    /\ (Len(Attempts) = 2 /\ opCalls[2].error # Undefined
            => opReply.body.success = FALSE)

\* C25 as stated: in handleTrialStarted the SIP call is attempted first and
\* exactly once; the plain call only after the SIP call failed, and at most
\* once; after a SIP success the plain call is never attempted; when both
\* fail the response is a failure and no further call is attempted.
C25_SipFirstExactlyOnce == TrialAnswered => AttemptsInOrder

\* C25, amended: the same order of attempts for a request that has name,
\* email and phoneNumber while an assistant id is configured; any other
\* request is answered with a failure and no call is attempted.
C25_SipFirstWhenCallable ==
    TrialAnswered =>
        IF ~trialFieldMissing(opParams) /\ config.vapi.assistantId # ""
        THEN AttemptsInOrder
        ELSE opCalls = << >> /\ opReply.body.success = FALSE

\* Both calls were attempted and both failed.
C25_Witness ==
    /\ TrialAnswered
    /\ Len(opCalls) = 2
    /\ opCalls[1].error # Undefined /\ opCalls[2].error # Undefined
    /\ opReply.body.success = FALSE

\* C28: a rescheduleBooking request with bookingId, startTime and timeZone
\* results in one provider reschedule call with that booking id, the new
\* start and an end time (the endTime given, or start plus the default
\* duration), and on provider success the response is 200 with success:true.
C28_RescheduleCallsProvider ==
    (opc = "done" /\ opName = "rescheduleBooking"
     /\ ~rescheduleFieldMissing(opParams)) =>
        /\ Len(opCalls) = 1
        /\ opCalls[1].bookingId = opParams.bookingId
        /\ opCalls[1].start = opParams.startTime
        /\ opCalls[1].end =
               (IF Has(opParams, "endTime") THEN opParams.endTime
                ELSE toISOString(DateAdd(DateParse(opParams.startTime),
                                         Minutes(DefaultDuration))))
        /\ (opCalls[1].error = Undefined =>
               opReply.statusCode = 200 /\ opReply.body.success = TRUE)

-----------------------------------------------------------------------------
(* Claims on errors in the voice-webhook envelope (SpecWebhook).            *)

\* The function called for the webhook returned a response of status 400
\* or more.
ReturnedFailure ==
    /\ wResult # Undefined /\ ~wResult.threw
    /\ wResult.value.statusCode >= 400

\* C30: in the function-call webhook path the envelope has the error key
\* only when the dispatched function threw or the function name is unknown;
\* when the function returns a failure result itself, the failure is
\* delivered under response with success:false and the inner HTTP status is
\* discarded.
C30_ErrorKeyOnlyWhenThrown ==
    FunctionCallAnswered =>
        /\ (Has(FunctionResponse, "error")
               <=> (dispatched = << >> \/ (wResult # Undefined /\ wResult.threw)))
        /\ (ReturnedFailure =>
               /\ Has(FunctionResponse, "response")
               /\ FunctionResponse.response.success = FALSE
               /\ envelope.statusCode = 200
               /\ ~Has(FunctionResponse.response, "statusCode"))

\* checkAvailability returned the 400 of handleError for a missing start
\* date, delivered under response.
C30_Witness ==
    /\ FunctionCallAnswered
    /\ dispatched # << >> /\ dispatched[1].function = "checkAvailability"
    /\ ReturnedFailure /\ wResult.value.statusCode = 400
    /\ Has(FunctionResponse, "response")
    /\ FunctionResponse.response.success = FALSE

====
